---------------------------- MODULE Spec2Model ----------------------------
(***************************************************************************)
(* Kaminario K2 volume driver (kaminario_common.py).                       *)
(*                                                                         *)
(* Part 1, the transport: KrestWrap._request under the retry decorator,    *)
(* called by several threads on one client.                                *)
(* Part 2, the array and the lifecycle operations of                       *)
(* KaminarioCinderDriver, one array request per step.                      *)
(***************************************************************************)
EXTENDS Naturals, Integers, Sequences, FiniteSets, TLC

\* The field names of the model's records, in the order in which every record
\* of the model lists its fields.  TLC orders the fields of a record by the
\* first occurrence of their names in the module and sorts a record in place
\* when it first compares it; a record written in that order is never
\* rewritten, so TLC's workers can share it.
FieldOrder ==
    [kind |-> TRUE, status_code |-> TRUE, text |-> TRUE, ok |-> TRUE,
     k2 |-> TRUE, volume_groups |-> TRUE, volumes |-> TRUE,
     snapshots |-> TRUE, hosts |-> TRUE, mappings |-> TRUE, nextid |-> TRUE,
     id |-> TRUE, name |-> TRUE, size |-> TRUE, is_dedup |-> TRUE,
     volume_group |-> TRUE, volume_type |-> TRUE, source |-> TRUE,
     is_exposable |-> TRUE, extra_specs |-> TRUE, key |-> TRUE,
     value |-> TRUE, source_name |-> TRUE, cls |-> TRUE, obj |-> TRUE,
     fn |-> TRUE, pc |-> TRUE, ex |-> TRUE, ret |-> TRUE, volume |-> TRUE,
     snapshot |-> TRUE, src_vref |-> TRUE, existing_ref |-> TRUE,
     connector |-> TRUE, vol |-> TRUE, vg |-> TRUE, vg_name |-> TRUE,
     host |-> TRUE, host_rs_total |-> TRUE, map |-> TRUE, mapping |-> TRUE,
     volsnap |-> TRUE, snap |-> TRUE, cview |-> TRUE, src_vol |-> TRUE,
     src_attach_info |-> TRUE, dest_attach_info |-> TRUE, op |-> TRUE,
     args |-> TRUE, result |-> TRUE, nfail |-> TRUE, pre |-> TRUE,
     status |-> TRUE, stack |-> TRUE, exc |-> TRUE, val |-> TRUE,
     new_size |-> TRUE, new_volume |-> TRUE, state |-> TRUE]

VARIABLES
    \* ---- transport (KrestWrap) ----
    krestlock,        \* owner of self.krestlock, NoThread when free
    tpc,              \* per thread: where it is inside the decorated _request
    attempt_number,   \* per thread: the decorator's attempt counter
    resp,             \* per thread: the array's answer to the attempt in flight
    outcome,          \* per thread: what the decorated call gave its caller
    sent,             \* per thread: requests put on the wire by the current call
    busyOnly,         \* per thread: every answer so far was a recognised busy error
    \* ---- array and lifecycle operations (KaminarioCinderDriver) ----
    k2,               \* the array: its collections and its next object id
    stack,            \* per thread: the call stack, one frame per running method
    result,           \* per thread: how the orchestrator's call ended
    nfail,            \* per thread: failures injected into the current call
    hfail,            \* per thread: those of them that were host-side failures
    call,             \* per thread: the orchestrator's current call (method, arguments)
    pre,              \* per thread: the array when the current call started
    prev,             \* per thread: the call before the current one and how it went
    ncalls            \* per thread: calls started so far

tvars == <<krestlock, tpc, attempt_number, resp, outcome, sent, busyOnly>>

lvars == <<k2, stack, result, nfail, hfail, call, pre, prev, ncalls>>

vars == <<krestlock, tpc, attempt_number, resp, outcome, sent, busyOnly,
          k2, stack, result, nfail, hfail, call, pre, prev, ncalls>>

-----------------------------------------------------------------------------
(* Bounds *)

NThreads == 2

\* cinder volume ids the orchestrator uses
NVolIds == 2

\* failures injected into one orchestrator call
MaxFaults == 1

\* orchestrator calls one thread makes in a row
MaxCalls == 2

Threads == 1..NThreads
NoThread == 0

-----------------------------------------------------------------------------
(* Part 1: transport *)

MAX_K2_RETRY == 5

K2_RETRY_ERRORS ==
    <<"MC_ERR_BUSY", "MC_ERR_BUSY_SPECIFIC", "MC_ERR_INPROGRESS", "MC_ERR_START_TIMEOUT">>

\* Python's `er in err_msg` on the tokens a response body is made of: er occurs
\* in the body when it is a substring of one of its tokens.
IsSubstring(er, tok) ==
    \/ er = tok
    \/ er = "MC_ERR_BUSY" /\ tok = "MC_ERR_BUSY_SPECIFIC"

Contains(err_msg, er) == \E tok \in err_msg : IsSubstring(er, tok)

\* The answers the array can give to one attempt: a response, or an HTTP error
\* with a status code and a body (the set of error tokens in its text).
Statuses == {400, 404, 500}
BodyTokens == {"MC_ERR_BUSY", "MC_ERR_BUSY_SPECIFIC", "MC_ERR_INPROGRESS",
               "MC_ERR_START_TIMEOUT", "MC_ERR_INVALID_PARAM"}
Bodies == {{}} \cup {{tok} : tok \in BodyTokens}
Answers ==
    {[kind |-> "response", status_code |-> 200, text |-> {}]}
    \cup [kind : {"HTTPError"}, status_code : Statuses, text : Bodies]
NoAnswer == [kind |-> "none", status_code |-> 0, text |-> {}]

should_retry_any400(err_code, err_msg) == err_code = 400

should_retry_anyStatus(err_code, err_msg) ==
    \E i \in 1..Len(K2_RETRY_ERRORS) : Contains(err_msg, K2_RETRY_ERRORS[i])

_should_retry(err_code, err_msg) ==
    IF err_code = 400
    THEN \E i \in 1..Len(K2_RETRY_ERRORS) : Contains(err_msg, K2_RETRY_ERRORS[i])
    ELSE FALSE

\* What one attempt of _request ends with, from the array's answer:
\* the except clause of _request.
AttemptResult(answer) ==
    IF answer.kind = "response" THEN "response"
    ELSE IF _should_retry(answer.status_code, answer.text)
         THEN "KaminarioRetryableException"
         ELSE "K2HTTPError"

\* utils.retry(exception.KaminarioRetryableException, retries=MAX_K2_RETRY):
\* the decorator's stop function, previous_attempt_number == retries.
retry_stop_offByOne(previous_attempt_number) == previous_attempt_number = MAX_K2_RETRY + 1

retry_stop(previous_attempt_number) == previous_attempt_number = MAX_K2_RETRY

\* the decorator's retry_on_exception
retry_on_exception(e) == e = "KaminarioRetryableException"

\* What the decorator raises once it stops retrying: the last attempt's own
\* exception (retrying re-raises it; nothing converts it).
raise_on_stop_Escalated(e) == "K2HTTPError"

raise_on_stop(e) == e

\* No lifecycle operation is running and the array is empty.
EmptyArray ==
    [volume_groups |-> {}, volumes |-> {}, snapshots |-> {}, hosts |-> {},
     mappings |-> {}, nextid |-> 1]

\* Python's None
None == 0

NoCall == [op |-> "none"]
NoResult == [status |-> "none", exc |-> "none", val |-> None]

LifecycleIdle ==
    /\ k2 = EmptyArray
    /\ stack = [t \in Threads |-> <<>>]
    /\ result = [t \in Threads |-> NoResult]
    /\ nfail = [t \in Threads |-> 0]
    /\ hfail = [t \in Threads |-> 0]
    /\ call = [t \in Threads |-> NoCall]
    /\ pre = [t \in Threads |-> EmptyArray]
    /\ prev = [t \in Threads |-> NoCall]
    /\ ncalls = [t \in Threads |-> 0]

TransportInit ==
    /\ krestlock = NoThread
    /\ tpc = [t \in Threads |-> "idle"]
    /\ attempt_number = [t \in Threads |-> 0]
    /\ resp = [t \in Threads |-> NoAnswer]
    /\ outcome = [t \in Threads |-> "none"]
    /\ sent = [t \in Threads |-> 0]
    /\ busyOnly = [t \in Threads |-> TRUE]

\* A thread calls client._request(...): the decorator starts attempt 1.
Call(t) ==
    /\ tpc[t] = "idle"
    /\ tpc' = [tpc EXCEPT ![t] = "acquire"]
    /\ attempt_number' = [attempt_number EXCEPT ![t] = 1]
    /\ UNCHANGED <<krestlock, resp, outcome, sent, busyOnly>>
    /\ UNCHANGED lvars

LockFree_Ignored(t) == TRUE

LockFree(t) == krestlock = NoThread

\* self.krestlock.acquire(): blocks until the lock is free.
Acquire(t) ==
    /\ tpc[t] = "acquire"
    /\ LockFree(t)
    /\ krestlock' = t
    /\ tpc' = [tpc EXCEPT ![t] = "locked"]
    /\ UNCHANGED <<attempt_number, resp, outcome, sent, busyOnly>>
    /\ UNCHANGED lvars

\* super()._request(method, ...): the request goes on the wire.
Send(t) ==
    /\ tpc[t] = "locked"
    /\ tpc' = [tpc EXCEPT ![t] = "inflight"]
    /\ sent' = [sent EXCEPT ![t] = @ + 1]
    /\ UNCHANGED <<krestlock, attempt_number, resp, outcome, busyOnly>>
    /\ UNCHANGED lvars

\* The array answers the request in flight.
Respond(t) ==
    /\ tpc[t] = "inflight"
    /\ \E answer \in Answers :
        /\ resp' = [resp EXCEPT ![t] = answer]
        /\ busyOnly' = [busyOnly EXCEPT ![t] =
                            @ /\ AttemptResult(answer) = "KaminarioRetryableException"]
    /\ tpc' = [tpc EXCEPT ![t] = "received"]
    /\ UNCHANGED <<krestlock, attempt_number, outcome, sent>>
    /\ UNCHANGED lvars

ReleasedLock_NotOnHTTPError(t) ==
    IF AttemptResult(resp[t]) = "K2HTTPError" THEN krestlock ELSE NoThread

ReleasedLock_OnlyOnSuccess(t) ==
    IF resp[t].kind = "response" THEN NoThread ELSE krestlock

ReleasedLock(t) == NoThread

\* The rest of one attempt and the decorator's decision: the except clause
\* classifies the error, the finally clause releases the lock, and the
\* decorator returns, re-raises or sleeps before the next attempt.
Finish(t) ==
    /\ tpc[t] = "received"
    /\ krestlock' = ReleasedLock(t)
    /\ LET attempt == AttemptResult(resp[t]) IN
        IF ~retry_on_exception(attempt)
        THEN /\ outcome' = [outcome EXCEPT ![t] = attempt]
             /\ tpc' = [tpc EXCEPT ![t] = "done"]
        ELSE IF retry_stop(attempt_number[t])
        THEN /\ outcome' = [outcome EXCEPT ![t] = raise_on_stop(attempt)]
             /\ tpc' = [tpc EXCEPT ![t] = "done"]
        ELSE /\ outcome' = outcome
             /\ tpc' = [tpc EXCEPT ![t] = "backoff"]
    /\ resp' = [resp EXCEPT ![t] = NoAnswer]
    /\ UNCHANGED <<attempt_number, sent, busyOnly>>
    /\ UNCHANGED lvars

\* The decorator's sleep ends: attempt_number += 1 and the next attempt starts.
Wake(t) ==
    /\ tpc[t] = "backoff"
    /\ attempt_number' = [attempt_number EXCEPT ![t] = @ + 1]
    /\ tpc' = [tpc EXCEPT ![t] = "acquire"]
    /\ UNCHANGED <<krestlock, resp, outcome, sent, busyOnly>>
    /\ UNCHANGED lvars

TransportNext ==
    \E t \in Threads :
        \/ Call(t)
        \/ Acquire(t)
        \/ Send(t)
        \/ Respond(t)
        \/ Finish(t)
        \/ Wake(t)

InitTransport == TransportInit /\ LifecycleIdle

SpecTransport == InitTransport /\ [][TransportNext]_vars

\* An attempt that has its answer runs on to the end of its finally clause:
\* nothing in the except and finally clauses of _request blocks.
SpecTransportFair == SpecTransport /\ \A t \in Threads : WF_vars(Finish(t))

-----------------------------------------------------------------------------
(* Part 2: naming rules *)

VolIds == 1..NVolIds

\* Names are pairs <<prefix, id>>: "cvg-{0}".format(vid) and so on.
get_volume_group_name(vid) == <<"cvg-", vid>>
get_volume_name(vid) == <<"cv-", vid>>
get_snap_name(sid) == <<"cs-", sid>>
get_view_name(vid) == <<"cview-", vid>>

\* re.sub('[^0-9a-zA-Z-_]', '_', connector.get('host', ''))[:32] on a host
\* string given as a sequence of characters.
ValidChars ==
    {"0", "1", "2", "3", "4", "5", "6", "7", "8", "9",
     "a", "b", "c", "d", "e", "f", "g", "h", "i", "j", "k", "l", "m",
     "n", "o", "p", "q", "r", "s", "t", "u", "v", "w", "x", "y", "z",
     "A", "B", "C", "D", "E", "F", "G", "H", "I", "J", "K", "L", "M",
     "N", "O", "P", "Q", "R", "S", "T", "U", "V", "W", "X", "Y", "Z",
     "-", "_"}

HostNameLimit == 32

re_sub_NoSub(host) == host

re_sub(host) == [i \in 1..Len(host) |-> IF host[i] \in ValidChars THEN host[i] ELSE "_"]

get_initiator_host_name(connector) ==
    LET subbed == re_sub(connector.host) IN
    IF Len(subbed) <= HostNameLimit THEN subbed ELSE SubSeq(subbed, 1, HostNameLimit)

\* vol_type.extra_specs is a sequence of items with a key and a value.
NoDedupType ==
    [extra_specs |-> <<[key |-> "kaminario:thin_prov_type", value |-> "nodedup"]>>]
DedupType ==
    [extra_specs |-> <<[key |-> "kaminario:thin_prov_type", value |-> "dedup"]>>]
PlainType == [extra_specs |-> <<>>]
VolumeTypes == {NoDedupType, DedupType, PlainType}

_get_is_dedup(vol_type) ==
    IF vol_type.extra_specs # <<>>   \* truthiness of the list
    THEN ~\E i \in 1..Len(vol_type.extra_specs) :
              /\ vol_type.extra_specs[i].key = "kaminario:thin_prov_type"
              /\ vol_type.extra_specs[i].value = "nodedup"
    ELSE TRUE

\* units.Mi
Mi == 1048576

-----------------------------------------------------------------------------
(* Part 2: the array behind the REST endpoint.  Each operator is one request;
   it gives [ok, k2, val]: whether the array accepted it, the array after it
   and the value returned.  The array keeps names unique within a collection
   and refuses to create or keep a reference to an object that is absent and
   to delete an object that others still refer to. *)

Accept(k, val) == [ok |-> TRUE, k2 |-> k, val |-> val]
Reject(k) == [ok |-> FALSE, k2 |-> k, val |-> None]

ById(coll, id) == {o \in coll : o.id = id}

\* client.search(collection, name=...): the result set, as the set of hits.
SearchName(coll, name) == {o \in coll : o.name = name}

\* rs.total and rs.hits[0] (the hit with the least id)
Total(rs) == Cardinality(rs)
Hit0(rs) == CHOOSE o \in rs : \A o2 \in rs : o.id <= o2.id

\* client.new("volume_groups", name=, quota=0, is_dedup=).save()
NewVolumeGroup(k, name, is_dedup) ==
    IF SearchName(k.volume_groups, name) # {}
    THEN Reject(k)
    ELSE LET vg == [id |-> k.nextid, name |-> name, is_dedup |-> is_dedup] IN
         Accept([k EXCEPT !.volume_groups = @ \cup {vg}, !.nextid = @ + 1], vg)

\* client.new("volumes", name=, size=, volume_group=vg).save()
NewVolume(k, name, size, vg) ==
    IF SearchName(k.volumes, name) # {} \/ ById(k.volume_groups, vg.id) = {}
    THEN Reject(k)
    ELSE LET vol == [id |-> k.nextid, name |-> name, size |-> size,
                     volume_group |-> vg.id] IN
         Accept([k EXCEPT !.volumes = @ \cup {vol}, !.nextid = @ + 1], vol)

\* client.new("snapshots", short_name=, source=, retention_policy=, ...).save()
NewSnapshot(k, short_name, source, is_exposable) ==
    IF \/ \E sn \in k.snapshots : sn.name = short_name
       \/ (ById(k.volume_groups, source.id) = {} /\ ById(k.snapshots, source.id) = {})
    THEN Reject(k)
    ELSE LET sn == [id |-> k.nextid, name |-> short_name, source |-> source.id,
                    is_exposable |-> is_exposable] IN
         Accept([k EXCEPT !.snapshots = @ \cup {sn}, !.nextid = @ + 1], sn)

\* client.new("hosts", name=, type="Linux").save()
NewHost(k, name) ==
    IF SearchName(k.hosts, name) # {}
    THEN Reject(k)
    ELSE LET host == [id |-> k.nextid, name |-> name] IN
         Accept([k EXCEPT !.hosts = @ \cup {host}, !.nextid = @ + 1], host)

\* client.new("mappings", volume=vol, host=host).save(); vol is a volume or an
\* exposable snapshot (a view); one mapping per (volume, host) pair.
NewMapping(k, vol, host) ==
    IF \/ (ById(k.volumes, vol.id) = {} /\ ById(k.snapshots, vol.id) = {})
       \/ ById(k.hosts, host.id) = {}
       \/ \E m \in k.mappings : m.volume = vol.id /\ m.host = host.id
    THEN Reject(k)
    ELSE LET m == [id |-> k.nextid, volume |-> vol.id, host |-> host.id] IN
         Accept([k EXCEPT !.mappings = @ \cup {m}, !.nextid = @ + 1], m)

\* obj.delete() on each kind of object
DeleteVolumeGroup(k, vg) ==
    IF \/ ById(k.volume_groups, vg.id) = {}
       \/ \E v \in k.volumes : v.volume_group = vg.id
       \/ \E sn \in k.snapshots : sn.source = vg.id
    THEN Reject(k)
    ELSE Accept([k EXCEPT !.volume_groups = @ \ ById(@, vg.id)], None)

DeleteVolumeObj(k, vol) ==
    IF \/ ById(k.volumes, vol.id) = {}
       \/ \E m \in k.mappings : m.volume = vol.id
    THEN Reject(k)
    ELSE Accept([k EXCEPT !.volumes = @ \ ById(@, vol.id)], None)

DeleteSnapshotObj(k, sn) ==
    IF \/ ById(k.snapshots, sn.id) = {}
       \/ \E m \in k.mappings : m.volume = sn.id
       \/ \E s2 \in k.snapshots : s2.source = sn.id
    THEN Reject(k)
    ELSE Accept([k EXCEPT !.snapshots = @ \ ById(@, sn.id)], None)

DeleteHostObj(k, host) ==
    IF \/ ById(k.hosts, host.id) = {}
       \/ \E m \in k.mappings : m.host = host.id
    THEN Reject(k)
    ELSE Accept([k EXCEPT !.hosts = @ \ ById(@, host.id)], None)

DeleteMappingObj(k, m) ==
    IF ById(k.mappings, m.id) = {}
    THEN Reject(k)
    ELSE Accept([k EXCEPT !.mappings = @ \ ById(@, m.id)], None)

\* obj.name = new_name; obj.save() on a volume group and on a volume
RenameVolumeGroup(k, vg, name) ==
    IF \/ ById(k.volume_groups, vg.id) = {}
       \/ \E g \in k.volume_groups : g.name = name /\ g.id # vg.id
    THEN Reject(k)
    ELSE Accept([k EXCEPT !.volume_groups =
                    {IF g.id = vg.id THEN [g EXCEPT !.name = name] ELSE g : g \in @}],
                None)

RenameVolume(k, vol, name) ==
    IF \/ ById(k.volumes, vol.id) = {}
       \/ \E v \in k.volumes : v.name = name /\ v.id # vol.id
    THEN Reject(k)
    ELSE Accept([k EXCEPT !.volumes =
                    {IF v.id = vol.id THEN [v EXCEPT !.name = name] ELSE v : v \in @}],
                None)

\* vol.size = size; vol.save()
ResizeVolume(k, vol, size) ==
    IF ById(k.volumes, vol.id) = {}
    THEN Reject(k)
    ELSE Accept([k EXCEPT !.volumes =
                    {IF v.id = vol.id THEN [v EXCEPT !.size = size] ELSE v : v \in @}],
                None)

\* The collections of the array, without its id counter.
Objects(k) == [volume_groups |-> k.volume_groups, volumes |-> k.volumes,
               snapshots |-> k.snapshots, hosts |-> k.hosts, mappings |-> k.mappings]

-----------------------------------------------------------------------------
(* Part 2: call stacks, exceptions and failure injection *)

Top(stk) == stk[Len(stk)]
Pop(stk) == SubSeq(stk, 1, Len(stk) - 1)
SetTop(stk, f) == [stk EXCEPT ![Len(stk)] = f]

At(t, fn, pc) == stack[t] # <<>> /\ Top(stack[t]).fn = fn /\ Top(stack[t]).pc = pc
Frame(t) == Top(stack[t])

\* A request may be made to fail while the call has failures left to inject.
FaultChoices(t) == IF nfail[t] < MaxFaults THEN {FALSE, TRUE} ELSE {FALSE}

\* try/except of each method: the steps inside a try block whose handler goes on
\* at a step of the same method ...
create_volume_try == {"vg_save", "vol_save"}

manage_existing_try == {"vol_search", "map_search", "vg_save", "vol_save"}

k2_initialize_connection_try == {"map_save"}
create_cloned_volume_try ==
    {"init_src", "connect_src", "create_volume", "init_dest", "connect_dest", "copy",
     "disconnect", "term_dest", "term_src", "end"}

create_volume_from_snapshot_try_WithViewSave ==
    {"view_save", "init_view", "connect_src", "create_volume", "init_dest",
     "connect_dest", "copy", "disconnect", "term_dest", "term_view", "view_delete"}

create_volume_from_snapshot_try ==
    {"init_view", "connect_src", "create_volume", "init_dest", "connect_dest", "copy",
     "disconnect", "term_dest", "term_view", "view_delete"}

HandlerPc_HostAlwaysDeleted(f) ==
    IF f.fn = "k2_initialize_connection" /\ f.pc \in k2_initialize_connection_try
    THEN "exc_host_search"
    ELSE "none"

HandlerPc(f) ==
    CASE f.fn = "create_volume" /\ f.pc \in create_volume_try -> "exc_search"
      [] f.fn = "k2_initialize_connection" /\ f.pc \in k2_initialize_connection_try
            /\ f.host_rs_total = 0 -> "exc_host_search"
      [] f.fn = "create_cloned_volume" /\ f.pc \in create_cloned_volume_try
            -> "exc_disconnect"
      [] f.fn = "create_volume_from_snapshot"
            /\ f.pc \in create_volume_from_snapshot_try -> "exc_disconnect"
      [] f.fn = "manage_existing" /\ f.pc \in manage_existing_try -> "exc_search"
      [] OTHER -> "none"

\* ... and those whose handler only raises another exception in its place.
delete_volume_try == {"vol_search", "vol_delete", "vg_search", "vg_delete"}

create_volume_from_snapshot_wrapped == {"get_policy", "view_save"}

create_snapshot_try == {"get_policy", "vg_search", "snap_save"}

delete_snapshot_try == {"snap_search", "snap_delete"}

extend_volume_try == {"vol_search", "vol_save"}

WrapAs(f) ==
    CASE f.fn = "delete_volume" /\ f.pc \in delete_volume_try
            -> "KaminarioCinderDriverException"
      [] f.fn = "k2_initialize_connection" /\ f.pc \in k2_initialize_connection_try
            -> "KaminarioCinderDriverException"
      [] f.fn = "create_volume_from_snapshot"
            /\ f.pc \in create_volume_from_snapshot_wrapped
            -> "KaminarioCinderDriverException"
      [] f.fn = "create_snapshot" /\ f.pc \in create_snapshot_try
            -> "KaminarioCinderDriverException"
      [] f.fn = "delete_snapshot" /\ f.pc \in delete_snapshot_try
            -> "KaminarioCinderDriverException"
      [] f.fn = "extend_volume" /\ f.pc \in extend_volume_try
            -> "KaminarioCinderDriverException"
      [] OTHER -> "none"

\* Python's unwinding: the exception goes up the stack to the first frame that
\* is inside a try block.
RECURSIVE Unwind(_, _)
Unwind(stk, e) ==
    IF stk = <<>> THEN [stack |-> <<>>, exc |-> e]
    ELSE LET f == Top(stk) IN
         IF HandlerPc(f) # "none"
         THEN [stack |-> SetTop(stk, [f EXCEPT !.pc = HandlerPc(f), !.ex = e]),
               exc |-> "none"]
         ELSE IF WrapAs(f) # "none"
         THEN Unwind(Pop(stk), WrapAs(f))
         ELSE Unwind(Pop(stk), e)

Raised(e) == [status |-> "raised", exc |-> e, val |-> None]
ReturnedValue(val) == [status |-> "returned", exc |-> "none", val |-> val]
Returned == ReturnedValue(None)

\* The running method goes on at another step.
Goto(t, f) ==
    /\ stack' = [stack EXCEPT ![t] = SetTop(@, f)]
    /\ result' = result

\* The running method raises e.
Raise(t, e) ==
    LET u == Unwind(stack[t], e) IN
    /\ stack' = [stack EXCEPT ![t] = u.stack]
    /\ result' = IF u.stack = <<>> THEN [result EXCEPT ![t] = Raised(u.exc)] ELSE result

\* The running method returns val to its caller.
Return(t, val) ==
    LET s == Pop(stack[t]) IN
    /\ stack' = [stack EXCEPT ![t] =
                    IF s = <<>> THEN s ELSE SetTop(s, [Top(s) EXCEPT !.ret = val])]
    /\ result' = IF s = <<>> THEN [result EXCEPT ![t] = ReturnedValue(val)] ELSE result

\* The running method goes on at f.pc once the method of frame callee returns.
Invoke(t, f, callee) ==
    /\ stack' = [stack EXCEPT ![t] = Append(SetTop(@, f), callee)]
    /\ result' = result

\* One array request of thread t: r is what the array answers when the failure
\* is not injected, OnOk what the method does with an accepted request.
Request(t, r, OnOk) ==
    /\ \E fault \in FaultChoices(t) :
        IF fault
        THEN /\ k2' = k2
             /\ nfail' = [nfail EXCEPT ![t] = @ + 1]
             /\ Raise(t, "K2HTTPError")
        ELSE /\ nfail' = nfail
             /\ IF r.ok
                THEN k2' = r.k2 /\ OnOk
                ELSE k2' = k2 /\ Raise(t, "K2HTTPError")
    /\ UNCHANGED <<hfail, call, pre, prev, ncalls>>
    /\ UNCHANGED tvars

\* The orchestrator calls a driver method on an idle thread that has made
\* fewer than limit calls.
Begin(t, limit, c, frame) ==
    /\ stack[t] = <<>>
    /\ ncalls[t] < limit
    /\ ncalls' = [ncalls EXCEPT ![t] = @ + 1]
    /\ prev' = [prev EXCEPT ![t] =
                    IF call[t].op = "none" THEN NoCall
                    ELSE [op |-> call[t].op, args |-> call[t].args,
                          result |-> result[t], nfail |-> nfail[t],
                          pre |-> pre[t]]]
    /\ call' = [call EXCEPT ![t] = c]
    /\ pre' = [pre EXCEPT ![t] = k2]
    /\ nfail' = [nfail EXCEPT ![t] = 0]
    /\ hfail' = [hfail EXCEPT ![t] = 0]
    /\ result' = [result EXCEPT ![t] = NoResult]
    /\ stack' = [stack EXCEPT ![t] = <<frame>>]
    /\ UNCHANGED k2
    /\ UNCHANGED tvars

\* The call of thread t has ended.
Ended(t, op) == call[t].op = op /\ stack[t] = <<>> /\ result[t].status # "none"

\* The cinder volume objects the orchestrator passes.
VolumeSize == 1
Volumes == [id : VolIds, size : {VolumeSize}, volume_type : VolumeTypes]

-----------------------------------------------------------------------------
(* create_volume *)

create_volume_frame(volume) ==
    [fn |-> "create_volume", pc |-> "vg_save", ex |-> "none", ret |-> None,
     volume |-> volume, vg |-> None]

\* vg = self.client.new("volume_groups", name=vg_name, quota=0, is_dedup=prov_type).save()
create_volume_vg_save(t) ==
    /\ At(t, "create_volume", "vg_save")
    /\ LET f == Frame(t)
           r == NewVolumeGroup(k2, get_volume_group_name(f.volume.id),
                               _get_is_dedup(f.volume.volume_type))
       IN Request(t, r, Goto(t, [f EXCEPT !.pc = "vol_save", !.vg = r.val]))

\* self.client.new("volumes", name=vol_name, size=volume.size * units.Mi, volume_group=vg).save()
create_volume_vol_save(t) ==
    /\ At(t, "create_volume", "vol_save")
    /\ LET f == Frame(t)
           r == NewVolume(k2, get_volume_name(f.volume.id), f.volume.size * Mi, f.vg)
       IN Request(t, r, Return(t, None))

create_volume_exc_search_AnyGroup(t) ==
    /\ At(t, "create_volume", "exc_search")
    /\ LET f == Frame(t)
           vg_rs == k2.volume_groups
       IN Request(t, Accept(k2, vg_rs),
                  IF Total(vg_rs) # 0
                  THEN Goto(t, [f EXCEPT !.pc = "exc_delete", !.vg = Hit0(vg_rs)])
                  ELSE Raise(t, "KaminarioCinderDriverException"))

create_volume_exc_search_NoCleanup(t) ==
    /\ At(t, "create_volume", "exc_search")
    /\ LET f == Frame(t)
           vg_rs == SearchName(k2.volume_groups, get_volume_group_name(f.volume.id))
       IN Request(t, Accept(k2, vg_rs), Raise(t, "KaminarioCinderDriverException"))

\* except: vg_rs = self.client.search("volume_groups", name=vg_name); if vg_rs.total != 0
create_volume_exc_search(t) ==
    /\ At(t, "create_volume", "exc_search")
    /\ LET f == Frame(t)
           vg_rs == SearchName(k2.volume_groups, get_volume_group_name(f.volume.id))
       IN Request(t, Accept(k2, vg_rs),
                  IF Total(vg_rs) # 0
                  THEN Goto(t, [f EXCEPT !.pc = "exc_delete", !.vg = Hit0(vg_rs)])
                  ELSE Raise(t, "KaminarioCinderDriverException"))

\* vg_rs.hits[0].delete(); raise KaminarioCinderDriverException
create_volume_exc_delete(t) ==
    /\ At(t, "create_volume", "exc_delete")
    /\ LET f == Frame(t)
           r == DeleteVolumeGroup(k2, f.vg)
       IN Request(t, r, Raise(t, "KaminarioCinderDriverException"))

create_volume(t) ==
    \/ create_volume_vg_save(t)
    \/ create_volume_vol_save(t)
    \/ create_volume_exc_search(t)
    \/ create_volume_exc_delete(t)

-----------------------------------------------------------------------------
(* delete_volume *)

delete_volume_frame(volume) ==
    [fn |-> "delete_volume", pc |-> "vol_search", ex |-> "none", ret |-> None,
     volume |-> volume, vol |-> None, vg |-> None]

delete_volume_vol_search_NoCheck(t) ==
    /\ At(t, "delete_volume", "vol_search")
    /\ LET f == Frame(t)
           vol_rs == SearchName(k2.volumes, get_volume_name(f.volume.id))
       IN Request(t, Accept(k2, vol_rs),
                  IF Total(vol_rs) # 0
                  THEN Goto(t, [f EXCEPT !.pc = "vol_delete", !.vol = Hit0(vol_rs)])
                  ELSE Raise(t, "IndexError"))

\* vol_rs = self.client.search("volumes", name=vol_name); if vol_rs.total != 0
delete_volume_vol_search(t) ==
    /\ At(t, "delete_volume", "vol_search")
    /\ LET f == Frame(t)
           vol_rs == SearchName(k2.volumes, get_volume_name(f.volume.id))
       IN Request(t, Accept(k2, vol_rs),
                  IF Total(vol_rs) # 0
                  THEN Goto(t, [f EXCEPT !.pc = "vol_delete", !.vol = Hit0(vol_rs)])
                  ELSE Goto(t, [f EXCEPT !.pc = "vg_search"]))

\* vol_rs.hits[0].delete()
delete_volume_vol_delete(t) ==
    /\ At(t, "delete_volume", "vol_delete")
    /\ LET f == Frame(t)
           r == DeleteVolumeObj(k2, f.vol)
       IN Request(t, r, Goto(t, [f EXCEPT !.pc = "vg_search"]))

\* vg_rs = self.client.search("volume_groups", name=vg_name); if vg_rs.total != 0
delete_volume_vg_search(t) ==
    /\ At(t, "delete_volume", "vg_search")
    /\ LET f == Frame(t)
           vg_rs == SearchName(k2.volume_groups, get_volume_group_name(f.volume.id))
       IN Request(t, Accept(k2, vg_rs),
                  IF Total(vg_rs) # 0
                  THEN Goto(t, [f EXCEPT !.pc = "vg_delete", !.vg = Hit0(vg_rs)])
                  ELSE Return(t, None))

\* vg_rs.hits[0].delete()
delete_volume_vg_delete(t) ==
    /\ At(t, "delete_volume", "vg_delete")
    /\ LET f == Frame(t)
           r == DeleteVolumeGroup(k2, f.vg)
       IN Request(t, r, Return(t, None))

delete_volume(t) ==
    \/ delete_volume_vol_search(t)
    \/ delete_volume_vol_delete(t)
    \/ delete_volume_vg_search(t)
    \/ delete_volume_vg_delete(t)

-----------------------------------------------------------------------------
(* terminate_connection *)

\* The volume argument is a cinder volume object, or a RestObject of the array
\* (type(volume).__name__ == 'RestObject').
CinderVolume(volume) == [cls |-> "Volume", obj |-> volume]
RestObject(obj) == [cls |-> "RestObject", obj |-> obj]

terminate_connection_frame(volume, connector) ==
    [fn |-> "terminate_connection",
     pc |-> IF volume.cls # "RestObject" THEN "vol_search" ELSE "host_search",
     ex |-> "none", ret |-> None,
     volume |-> volume, connector |-> connector, host |-> None, map |-> None]

\* volume_rs = self.client.search("volumes", name=vol_name); if found, volume = hits[0]
terminate_connection_vol_search(t) ==
    /\ At(t, "terminate_connection", "vol_search")
    /\ LET f == Frame(t)
           volume_rs == SearchName(k2.volumes, get_volume_name(f.volume.obj.id))
       IN Request(t, Accept(k2, volume_rs),
                  IF Total(volume_rs) # 0
                  THEN Goto(t, [f EXCEPT !.pc = "host_search",
                                         !.volume = RestObject(Hit0(volume_rs))])
                  ELSE Goto(t, [f EXCEPT !.pc = "host_search"]))

\* host_rs = self.client.search("hosts", name=host_name); the volume object,
\* resolved or not, is truthy
terminate_connection_host_search(t) ==
    /\ At(t, "terminate_connection", "host_search")
    /\ LET f == Frame(t)
           host_rs == SearchName(k2.hosts, get_initiator_host_name(f.connector))
       IN Request(t, Accept(k2, host_rs),
                  IF Total(host_rs) # 0
                  THEN Goto(t, [f EXCEPT !.pc = "map_search", !.host = Hit0(host_rs)])
                  ELSE Return(t, None))

\* self.client.search("mappings", volume=volume, host=host): a volume the
\* search did not resolve is no array object, and no mapping refers to it.
MappingsOf(k, volume, host) ==
    IF volume.cls = "RestObject"
    THEN {m \in k.mappings : m.volume = volume.obj.id /\ m.host = host.id}
    ELSE {}

\* map_rs = self.client.search("mappings", volume=volume, host=host)
terminate_connection_map_search(t) ==
    /\ At(t, "terminate_connection", "map_search")
    /\ LET f == Frame(t)
           map_rs == MappingsOf(k2, f.volume, f.host)
       IN Request(t, Accept(k2, map_rs),
                  IF Total(map_rs) # 0
                  THEN Goto(t, [f EXCEPT !.pc = "map_delete", !.map = Hit0(map_rs)])
                  ELSE Goto(t, [f EXCEPT !.pc = "host_maps"]))

\* map_rs.hits[0].delete()
terminate_connection_map_delete(t) ==
    /\ At(t, "terminate_connection", "map_delete")
    /\ LET f == Frame(t)
           r == DeleteMappingObj(k2, f.map)
       IN Request(t, r, Goto(t, [f EXCEPT !.pc = "host_maps"]))

terminate_connection_host_maps_KeepHost(t) ==
    /\ At(t, "terminate_connection", "host_maps")
    /\ LET f == Frame(t)
           rs == {m \in k2.mappings : m.host = f.host.id}
       IN Request(t, Accept(k2, rs), Return(t, None))

\* if self.client.search("mappings", host=host).total == 0
terminate_connection_host_maps(t) ==
    /\ At(t, "terminate_connection", "host_maps")
    /\ LET f == Frame(t)
           rs == {m \in k2.mappings : m.host = f.host.id}
       IN Request(t, Accept(k2, rs),
                  IF Total(rs) = 0
                  THEN Goto(t, [f EXCEPT !.pc = "host_delete"])
                  ELSE Return(t, None))

\* host.delete()
terminate_connection_host_delete(t) ==
    /\ At(t, "terminate_connection", "host_delete")
    /\ LET f == Frame(t)
           r == DeleteHostObj(k2, f.host)
       IN Request(t, r, Return(t, None))

terminate_connection(t) ==
    \/ terminate_connection_vol_search(t)
    \/ terminate_connection_host_search(t)
    \/ terminate_connection_map_search(t)
    \/ terminate_connection_map_delete(t)
    \/ terminate_connection_host_maps(t)
    \/ terminate_connection_host_delete(t)

-----------------------------------------------------------------------------
(* manage_existing *)

\* vg_name = None
NoName == <<>>

manage_existing_frame(volume, existing_ref) ==
    [fn |-> "manage_existing", pc |-> "vol_search", ex |-> "none", ret |-> None,
     volume |-> volume, existing_ref |-> existing_ref,
     vol |-> None, vg |-> None, vg_name |-> NoName]

\* vol = self.client.search("volumes", name=vol_name).hits[0]; vg = vol.volume_group
manage_existing_vol_search(t) ==
    /\ At(t, "manage_existing", "vol_search")
    /\ LET f == Frame(t)
           rs == SearchName(k2.volumes, f.existing_ref.source_name)
       IN Request(t, Accept(k2, rs),
                  IF Total(rs) # 0
                  THEN Goto(t, [f EXCEPT !.pc = "map_search",
                                         !.vol = Hit0(rs),
                                         !.vg = Hit0(ById(k2.volume_groups,
                                                          Hit0(rs).volume_group))])
                  ELSE Raise(t, "IndexError"))

manage_existing_map_search_MappedAllowed(t) ==
    /\ At(t, "manage_existing", "map_search")
    /\ LET f == Frame(t)
           rs == {m \in k2.mappings : m.volume = f.vol.id}
           is_dedup == _get_is_dedup(f.volume.volume_type)
       IN Request(t, Accept(k2, rs),
                  IF is_dedup # f.vg.is_dedup
                  THEN Raise(t, "ManageExistingInvalidReference")
                  ELSE Goto(t, [f EXCEPT !.pc = "vg_save", !.vg_name = f.vg.name]))

\* vol_map: self.client.search("mappings", volume=vol).total != 0;
\* if is_dedup != vg.is_dedup or vol_map: raise; else the names are set locally
manage_existing_map_search(t) ==
    /\ At(t, "manage_existing", "map_search")
    /\ LET f == Frame(t)
           rs == {m \in k2.mappings : m.volume = f.vol.id}
           vol_map == Total(rs) # 0
           is_dedup == _get_is_dedup(f.volume.volume_type)
       IN Request(t, Accept(k2, rs),
                  IF is_dedup # f.vg.is_dedup \/ vol_map
                  THEN Raise(t, "ManageExistingInvalidReference")
                  ELSE Goto(t, [f EXCEPT !.pc = "vg_save", !.vg_name = f.vg.name]))

\* vg.name = vg_new_name; vg.save()
manage_existing_vg_save(t) ==
    /\ At(t, "manage_existing", "vg_save")
    /\ LET f == Frame(t)
           r == RenameVolumeGroup(k2, f.vg, get_volume_group_name(f.volume.id))
       IN Request(t, r, Goto(t, [f EXCEPT !.pc = "vol_save"]))

\* vol.name = new_name; vol.save()
manage_existing_vol_save(t) ==
    /\ At(t, "manage_existing", "vol_save")
    /\ LET f == Frame(t)
           r == RenameVolume(k2, f.vol, get_volume_name(f.volume.id))
       IN Request(t, r, Return(t, None))

\* except: vg_rs = self.client.search("volume_groups", name=vg_new_name);
\* if found and vg_name and vg.name == vg_new_name: the old name is set locally
manage_existing_exc_search(t) ==
    /\ At(t, "manage_existing", "exc_search")
    /\ LET f == Frame(t)
           vg_rs == SearchName(k2.volume_groups, get_volume_group_name(f.volume.id))
       IN Request(t, Accept(k2, vg_rs),
                  IF Total(vg_rs) # 0 /\ f.vg_name # NoName
                     /\ Hit0(vg_rs).name = get_volume_group_name(f.volume.id)
                  THEN Goto(t, [f EXCEPT !.pc = "exc_vg_save", !.vg = Hit0(vg_rs)])
                  ELSE Raise(t, "ManageExistingInvalidReference"))

manage_existing_exc_vg_save_NoRestore(t) ==
    /\ At(t, "manage_existing", "exc_vg_save")
    /\ LET f == Frame(t)
       IN Request(t, Accept(k2, None), Raise(t, "ManageExistingInvalidReference"))

\* vg.save(); raise ManageExistingInvalidReference
manage_existing_exc_vg_save(t) ==
    /\ At(t, "manage_existing", "exc_vg_save")
    /\ LET f == Frame(t)
           r == RenameVolumeGroup(k2, f.vg, f.vg_name)
       IN Request(t, r, Raise(t, "ManageExistingInvalidReference"))

manage_existing(t) ==
    \/ manage_existing_vol_search(t)
    \/ manage_existing_map_search(t)
    \/ manage_existing_vg_save(t)
    \/ manage_existing_vol_save(t)
    \/ manage_existing_exc_search(t)
    \/ manage_existing_exc_vg_save(t)

\* the volumes of the default type
PlainVolumes == {v \in Volumes : v.volume_type = PlainType}

-----------------------------------------------------------------------------
(* k2_initialize_connection, with _get_volume_object, _get_host_object,
   _delete_host_by_name and _get_lun_number as its own steps *)

k2_initialize_connection_frame(volume, connector) ==
    [fn |-> "k2_initialize_connection",
     pc |-> IF volume.cls # "RestObject" THEN "get_volume_object" ELSE "host_search",
     ex |-> "none", ret |-> None,
     volume |-> volume, connector |-> connector,
     vol |-> IF volume.cls # "RestObject" THEN None ELSE volume.obj,
     host |-> None, host_rs_total |-> 0, mapping |-> None, volsnap |-> {}]

\* _get_volume_object: vol_rs = self.client.search("volumes", name=vol_name);
\* raise if vol_rs.total == 0; return vol_rs.hits[0]
k2_initialize_connection_get_volume_object(t) ==
    /\ At(t, "k2_initialize_connection", "get_volume_object")
    /\ LET f == Frame(t)
           vol_rs == SearchName(k2.volumes, get_volume_name(f.volume.obj.id))
       IN Request(t, Accept(k2, vol_rs),
                  IF Total(vol_rs) = 0
                  THEN Raise(t, "KaminarioCinderDriverException")
                  ELSE Goto(t, [f EXCEPT !.pc = "host_search", !.vol = Hit0(vol_rs)]))

\* _get_host_object: search the host by its derived name ...
k2_initialize_connection_host_search(t) ==
    /\ At(t, "k2_initialize_connection", "host_search")
    /\ LET f == Frame(t)
           host_rs == SearchName(k2.hosts, get_initiator_host_name(f.connector))
       IN Request(t, Accept(k2, host_rs),
                  IF Total(host_rs) = 0
                  THEN Goto(t, [f EXCEPT !.pc = "host_create", !.host_rs_total = 0])
                  ELSE Goto(t, [f EXCEPT !.pc = "map_save", !.host = Hit0(host_rs),
                                         !.host_rs_total = Total(host_rs)]))

\* ... and create it when the search found none
k2_initialize_connection_host_create(t) ==
    /\ At(t, "k2_initialize_connection", "host_create")
    /\ LET f == Frame(t)
           r == NewHost(k2, get_initiator_host_name(f.connector))
       IN Request(t, r, Goto(t, [f EXCEPT !.pc = "map_save", !.host = r.val]))

\* mapping = self.client.new("mappings", volume=vol, host=host).save()
k2_initialize_connection_map_save(t) ==
    /\ At(t, "k2_initialize_connection", "map_save")
    /\ LET f == Frame(t)
           r == NewMapping(k2, f.vol, f.host)
       IN Request(t, r,
                  IF f.volume.cls = "RestObject"
                  THEN Goto(t, [f EXCEPT !.pc = "volsnap_search", !.mapping = r.val])
                  ELSE Return(t, r.val))

\* except, host_rs.total == 0: _delete_host_by_name searches the host ...
k2_initialize_connection_exc_host_search(t) ==
    /\ At(t, "k2_initialize_connection", "exc_host_search")
    /\ LET f == Frame(t)
           host_rs == SearchName(k2.hosts, get_initiator_host_name(f.connector))
       IN Request(t, Accept(k2, host_rs),
                  IF Total(host_rs) # 0
                  THEN Goto(t, [f EXCEPT !.pc = "exc_host_delete", !.host = Hit0(host_rs)])
                  ELSE Raise(t, "KaminarioCinderDriverException"))

\* ... and deletes it; raise KaminarioCinderDriverException
k2_initialize_connection_exc_host_delete(t) ==
    /\ At(t, "k2_initialize_connection", "exc_host_delete")
    /\ LET f == Frame(t)
           r == DeleteHostObj(k2, f.host)
       IN Request(t, r, Raise(t, "KaminarioCinderDriverException"))

\* _get_lun_number: volsnap_rs = self.client.search("volsnaps", snapshot=vol);
\* volsnap = volsnap_rs.hits[0] if there is one, else None (the empty set
\* here); the volsnap of a view stands for the view in its mappings
k2_initialize_connection_volsnap_search(t) ==
    /\ At(t, "k2_initialize_connection", "volsnap_search")
    /\ LET f == Frame(t)
           volsnap_rs == ById(k2.snapshots, f.vol.id)
       IN Request(t, Accept(k2, volsnap_rs),
                  Goto(t, [f EXCEPT !.pc = "lun_search",
                                    !.volsnap = IF Total(volsnap_rs) # 0
                                                THEN {Hit0(volsnap_rs)} ELSE {}]))

\* map_rs = self.client.search("mappings", volume=volsnap, host=host);
\* return map_rs.hits[0].lun
k2_initialize_connection_lun_search(t) ==
    /\ At(t, "k2_initialize_connection", "lun_search")
    /\ LET f == Frame(t)
           map_rs == {m \in k2.mappings :
                        /\ \E volsnap \in f.volsnap : m.volume = volsnap.id
                        /\ m.host = f.host.id}
       IN Request(t, Accept(k2, map_rs),
                  IF Total(map_rs) # 0
                  THEN Return(t, Hit0(map_rs))
                  ELSE Raise(t, "IndexError"))

k2_initialize_connection(t) ==
    \/ k2_initialize_connection_get_volume_object(t)
    \/ k2_initialize_connection_host_search(t)
    \/ k2_initialize_connection_host_create(t)
    \/ k2_initialize_connection_map_save(t)
    \/ k2_initialize_connection_exc_host_search(t)
    \/ k2_initialize_connection_exc_host_delete(t)

\* the steps k2_initialize_connection takes only for a view
_get_lun_number(t) ==
    \/ k2_initialize_connection_volsnap_search(t)
    \/ k2_initialize_connection_lun_search(t)

\* initialize_connection of the protocol driver: k2_initialize_connection does
\* the array's part of it.
initialize_connection_frame(volume, connector) ==
    k2_initialize_connection_frame(volume, connector)

\* connector of the host the orchestrator attaches to
Connector == [host |-> <<"n", "@", "1">>]

\* One call of the host side collaborators (_connect_device, copy_volume,
\* _kaminario_disconnect_volume): no array request; it may fail.
External(t, OnOk) ==
    /\ \E fault \in FaultChoices(t) :
        IF fault
        THEN /\ nfail' = [nfail EXCEPT ![t] = @ + 1]
             /\ hfail' = [hfail EXCEPT ![t] = @ + 1]
             /\ Raise(t, "HostSideError")
        ELSE /\ nfail' = nfail
             /\ hfail' = hfail
             /\ OnOk
    /\ UNCHANGED <<k2, call, pre, prev, ncalls>>
    /\ UNCHANGED tvars

\* what _connect_device returns, and the None the attach infos start as
AttachInfo == {"device"}
NoAttachInfo == {}

\* A step of a method that makes no request and cannot fail.
Local(t, Then) ==
    /\ Then
    /\ UNCHANGED <<k2, nfail, hfail, call, pre, prev, ncalls>>
    /\ UNCHANGED tvars

-----------------------------------------------------------------------------
(* create_cloned_volume *)

create_cloned_volume_frame(volume, src_vref) ==
    [fn |-> "create_cloned_volume", pc |-> "src_search", ex |-> "none", ret |-> None,
     volume |-> volume, src_vref |-> src_vref, src_vol |-> {},
     src_attach_info |-> NoAttachInfo, dest_attach_info |-> NoAttachInfo]

\* src_vol = self.client.search("volumes", name=src_name)   (a result set)
create_cloned_volume_src_search(t) ==
    /\ At(t, "create_cloned_volume", "src_search")
    /\ LET f == Frame(t)
           src_vol == SearchName(k2.volumes, get_volume_name(f.src_vref.id))
       IN Request(t, Accept(k2, src_vol),
                  Goto(t, [f EXCEPT !.pc = "map_search", !.src_vol = src_vol]))

create_cloned_volume_map_search_NoReject(t) ==
    /\ At(t, "create_cloned_volume", "map_search")
    /\ LET f == Frame(t)
           src_map == {m \in k2.mappings : \E v \in f.src_vol : m.volume = v.id}
       IN Request(t, Accept(k2, src_map), Goto(t, [f EXCEPT !.pc = "init_src"]))

\* src_map = self.client.search("mappings", volume=src_vol);
\* if src_map.total != 0: raise KaminarioCinderDriverException
create_cloned_volume_map_search(t) ==
    /\ At(t, "create_cloned_volume", "map_search")
    /\ LET f == Frame(t)
           src_map == {m \in k2.mappings : \E v \in f.src_vol : m.volume = v.id}
       IN Request(t, Accept(k2, src_map),
                  IF Total(src_map) # 0
                  THEN Raise(t, "KaminarioCinderDriverException")
                  ELSE Goto(t, [f EXCEPT !.pc = "init_src"]))

\* conn = self.initialize_connection(src_vref, properties)
create_cloned_volume_init_src(t) ==
    /\ At(t, "create_cloned_volume", "init_src")
    /\ Local(t, Invoke(t, [Frame(t) EXCEPT !.pc = "connect_src"],
                       initialize_connection_frame(CinderVolume(Frame(t).src_vref),
                                                   Connector)))

\* src_attach_info = self._connect_device(conn)
create_cloned_volume_connect_src(t) ==
    /\ At(t, "create_cloned_volume", "connect_src")
    /\ External(t, Goto(t, [Frame(t) EXCEPT !.pc = "create_volume",
                                            !.src_attach_info = AttachInfo]))

\* self.create_volume(volume)
create_cloned_volume_create_volume(t) ==
    /\ At(t, "create_cloned_volume", "create_volume")
    /\ Local(t, Invoke(t, [Frame(t) EXCEPT !.pc = "init_dest"],
                       create_volume_frame(Frame(t).volume)))

\* conn = self.initialize_connection(volume, properties)
create_cloned_volume_init_dest(t) ==
    /\ At(t, "create_cloned_volume", "init_dest")
    /\ Local(t, Invoke(t, [Frame(t) EXCEPT !.pc = "connect_dest"],
                       initialize_connection_frame(CinderVolume(Frame(t).volume),
                                                   Connector)))

\* dest_attach_info = self._connect_device(conn)
create_cloned_volume_connect_dest(t) ==
    /\ At(t, "create_cloned_volume", "connect_dest")
    /\ External(t, Goto(t, [Frame(t) EXCEPT !.pc = "copy",
                                            !.dest_attach_info = AttachInfo]))

\* vol_utils.copy_volume(...)
create_cloned_volume_copy(t) ==
    /\ At(t, "create_cloned_volume", "copy")
    /\ External(t, Goto(t, [Frame(t) EXCEPT !.pc = "disconnect"]))

\* self._kaminario_disconnect_volume(src_attach_info, dest_attach_info)
create_cloned_volume_disconnect(t) ==
    /\ At(t, "create_cloned_volume", "disconnect")
    /\ External(t, Goto(t, [Frame(t) EXCEPT !.pc = "term_dest"]))

\* self.terminate_connection(volume, properties)
create_cloned_volume_term_dest(t) ==
    /\ At(t, "create_cloned_volume", "term_dest")
    /\ Local(t, Invoke(t, [Frame(t) EXCEPT !.pc = "term_src"],
                       terminate_connection_frame(CinderVolume(Frame(t).volume),
                                                  Connector)))

\* self.terminate_connection(src_vref, properties)
create_cloned_volume_term_src(t) ==
    /\ At(t, "create_cloned_volume", "term_src")
    /\ Local(t, Invoke(t, [Frame(t) EXCEPT !.pc = "end"],
                       terminate_connection_frame(CinderVolume(Frame(t).src_vref),
                                                  Connector)))

\* the end of the try block: the method returns
create_cloned_volume_end(t) ==
    /\ At(t, "create_cloned_volume", "end")
    /\ Local(t, Return(t, None))

\* except: self._kaminario_disconnect_volume(src_attach_info, dest_attach_info)
\* calls the connector for each attach info that is set
create_cloned_volume_exc_disconnect(t) ==
    /\ At(t, "create_cloned_volume", "exc_disconnect")
    /\ IF Frame(t).src_attach_info = NoAttachInfo /\ Frame(t).dest_attach_info = NoAttachInfo
       THEN Local(t, Goto(t, [Frame(t) EXCEPT !.pc = "exc_term_src"]))
       ELSE External(t, Goto(t, [Frame(t) EXCEPT !.pc = "exc_term_src"]))

\* self.terminate_connection(src_vref, properties)
create_cloned_volume_exc_term_src(t) ==
    /\ At(t, "create_cloned_volume", "exc_term_src")
    /\ Local(t, Invoke(t, [Frame(t) EXCEPT !.pc = "exc_term_dest"],
                       terminate_connection_frame(CinderVolume(Frame(t).src_vref),
                                                  Connector)))

\* self.terminate_connection(volume, properties)
create_cloned_volume_exc_term_dest(t) ==
    /\ At(t, "create_cloned_volume", "exc_term_dest")
    /\ Local(t, Invoke(t, [Frame(t) EXCEPT !.pc = "exc_delete_volume"],
                       terminate_connection_frame(CinderVolume(Frame(t).volume),
                                                  Connector)))

\* self.delete_volume(volume)
create_cloned_volume_exc_delete_volume(t) ==
    /\ At(t, "create_cloned_volume", "exc_delete_volume")
    /\ Local(t, Invoke(t, [Frame(t) EXCEPT !.pc = "exc_raise"],
                       delete_volume_frame(Frame(t).volume)))

\* raise exception.KaminarioCinderDriverException
create_cloned_volume_exc_raise(t) ==
    /\ At(t, "create_cloned_volume", "exc_raise")
    /\ Local(t, Raise(t, "KaminarioCinderDriverException"))

create_cloned_volume(t) ==
    \/ create_cloned_volume_src_search(t)
    \/ create_cloned_volume_map_search(t)
    \/ create_cloned_volume_init_src(t)
    \/ create_cloned_volume_connect_src(t)
    \/ create_cloned_volume_create_volume(t)
    \/ create_cloned_volume_init_dest(t)
    \/ create_cloned_volume_connect_dest(t)
    \/ create_cloned_volume_copy(t)
    \/ create_cloned_volume_disconnect(t)
    \/ create_cloned_volume_term_dest(t)
    \/ create_cloned_volume_term_src(t)
    \/ create_cloned_volume_end(t)
    \/ create_cloned_volume_exc_disconnect(t)
    \/ create_cloned_volume_exc_term_src(t)
    \/ create_cloned_volume_exc_term_dest(t)
    \/ create_cloned_volume_exc_delete_volume(t)
    \/ create_cloned_volume_exc_raise(t)

-----------------------------------------------------------------------------
(* create_volume_from_snapshot *)

\* the orchestrator's snapshot objects: snapshot i is the snapshot of volume i
Snapshots == {[id |-> v.id, volume |-> v] : v \in PlainVolumes}

create_volume_from_snapshot_frame(volume, snapshot) ==
    [fn |-> "create_volume_from_snapshot", pc |-> "get_policy",
     ex |-> "none", ret |-> None,
     volume |-> volume, snapshot |-> snapshot, snap |-> None, cview |-> None,
     src_attach_info |-> NoAttachInfo, dest_attach_info |-> NoAttachInfo]

\* get_policy: self.client.search("retention_policies", name="Best_Effort_Retention").hits[0]
\* inside try, except: raise KaminarioCinderDriverException; the policy is
\* one every array has
create_volume_from_snapshot_get_policy(t) ==
    /\ At(t, "create_volume_from_snapshot", "get_policy")
    /\ Request(t, Accept(k2, None),
               Goto(t, [Frame(t) EXCEPT !.pc = "snap_search"]))

\* snap = self.client.search("snapshots", short_name=snap_name)
\* if snap_rs.total != 0: snap = snap_rs.hits[0]
\* else: raise KaminarioCinderDriverException
create_volume_from_snapshot_snap_search(t) ==
    /\ At(t, "create_volume_from_snapshot", "snap_search")
    /\ LET f == Frame(t)
           snap == SearchName(k2.snapshots, get_snap_name(f.snapshot.id))
       IN Request(t, Accept(k2, snap),
                  IF Total(snap) # 0
                  THEN Goto(t, [f EXCEPT !.pc = "view_save", !.snap = Hit0(snap)])
                  ELSE Raise(t, "KaminarioCinderDriverException"))

\* cview = self.client.new("snapshots", short_name=view_name, source=snap,
\*                         retention_policy=rpolicy, is_exposable=True).save()
create_volume_from_snapshot_view_save(t) ==
    /\ At(t, "create_volume_from_snapshot", "view_save")
    /\ LET f == Frame(t)
           r == NewSnapshot(k2, get_view_name(f.volume.id), f.snap, TRUE)
       IN Request(t, r, Goto(t, [f EXCEPT !.pc = "init_view", !.cview = r.val]))

\* conn = self.initialize_connection(cview, properties)
create_volume_from_snapshot_init_view(t) ==
    /\ At(t, "create_volume_from_snapshot", "init_view")
    /\ Local(t, Invoke(t, [Frame(t) EXCEPT !.pc = "connect_src"],
                       initialize_connection_frame(RestObject(Frame(t).cview),
                                                   Connector)))

\* src_attach_info = self._connect_device(conn)
create_volume_from_snapshot_connect_src(t) ==
    /\ At(t, "create_volume_from_snapshot", "connect_src")
    /\ External(t, Goto(t, [Frame(t) EXCEPT !.pc = "create_volume",
                                            !.src_attach_info = AttachInfo]))

\* self.create_volume(volume)
create_volume_from_snapshot_create_volume(t) ==
    /\ At(t, "create_volume_from_snapshot", "create_volume")
    /\ Local(t, Invoke(t, [Frame(t) EXCEPT !.pc = "init_dest"],
                       create_volume_frame(Frame(t).volume)))

\* conn = self.initialize_connection(volume, properties)
create_volume_from_snapshot_init_dest(t) ==
    /\ At(t, "create_volume_from_snapshot", "init_dest")
    /\ Local(t, Invoke(t, [Frame(t) EXCEPT !.pc = "connect_dest"],
                       initialize_connection_frame(CinderVolume(Frame(t).volume),
                                                   Connector)))

\* dest_attach_info = self._connect_device(conn)
create_volume_from_snapshot_connect_dest(t) ==
    /\ At(t, "create_volume_from_snapshot", "connect_dest")
    /\ External(t, Goto(t, [Frame(t) EXCEPT !.pc = "copy",
                                            !.dest_attach_info = AttachInfo]))

\* vol_utils.copy_volume(...)
create_volume_from_snapshot_copy(t) ==
    /\ At(t, "create_volume_from_snapshot", "copy")
    /\ External(t, Goto(t, [Frame(t) EXCEPT !.pc = "disconnect"]))

\* self._kaminario_disconnect_volume(src_attach_info, dest_attach_info)
create_volume_from_snapshot_disconnect(t) ==
    /\ At(t, "create_volume_from_snapshot", "disconnect")
    /\ External(t, Goto(t, [Frame(t) EXCEPT !.pc = "term_dest"]))

\* self.terminate_connection(volume, properties)
create_volume_from_snapshot_term_dest(t) ==
    /\ At(t, "create_volume_from_snapshot", "term_dest")
    /\ Local(t, Invoke(t, [Frame(t) EXCEPT !.pc = "term_view"],
                       terminate_connection_frame(CinderVolume(Frame(t).volume),
                                                  Connector)))

\* self.terminate_connection(cview, properties)
create_volume_from_snapshot_term_view(t) ==
    /\ At(t, "create_volume_from_snapshot", "term_view")
    /\ Local(t, Invoke(t, [Frame(t) EXCEPT !.pc = "view_delete"],
                       terminate_connection_frame(RestObject(Frame(t).cview),
                                                  Connector)))

\* cview.delete()   (the last statement of the try block)
create_volume_from_snapshot_view_delete(t) ==
    /\ At(t, "create_volume_from_snapshot", "view_delete")
    /\ LET f == Frame(t)
           r == DeleteSnapshotObj(k2, f.cview)
       IN Request(t, r, Return(t, None))

\* except: self._kaminario_disconnect_volume(src_attach_info, dest_attach_info)
create_volume_from_snapshot_exc_disconnect(t) ==
    /\ At(t, "create_volume_from_snapshot", "exc_disconnect")
    /\ IF Frame(t).src_attach_info = NoAttachInfo
          /\ Frame(t).dest_attach_info = NoAttachInfo
       THEN Local(t, Goto(t, [Frame(t) EXCEPT !.pc = "exc_term_view"]))
       ELSE External(t, Goto(t, [Frame(t) EXCEPT !.pc = "exc_term_view"]))

\* self.terminate_connection(cview, properties)
create_volume_from_snapshot_exc_term_view(t) ==
    /\ At(t, "create_volume_from_snapshot", "exc_term_view")
    /\ Local(t, Invoke(t, [Frame(t) EXCEPT !.pc = "exc_term_dest"],
                       terminate_connection_frame(RestObject(Frame(t).cview),
                                                  Connector)))

\* self.terminate_connection(volume, properties)
create_volume_from_snapshot_exc_term_dest(t) ==
    /\ At(t, "create_volume_from_snapshot", "exc_term_dest")
    /\ Local(t, Invoke(t, [Frame(t) EXCEPT !.pc = "exc_view_delete"],
                       terminate_connection_frame(CinderVolume(Frame(t).volume),
                                                  Connector)))

create_volume_from_snapshot_exc_view_delete_KeepView(t) ==
    /\ At(t, "create_volume_from_snapshot", "exc_view_delete")
    /\ LET f == Frame(t)
       IN Request(t, Accept(k2, None), Goto(t, [f EXCEPT !.pc = "exc_delete_volume"]))

\* cview.delete()
create_volume_from_snapshot_exc_view_delete(t) ==
    /\ At(t, "create_volume_from_snapshot", "exc_view_delete")
    /\ LET f == Frame(t)
           r == DeleteSnapshotObj(k2, f.cview)
       IN Request(t, r, Goto(t, [f EXCEPT !.pc = "exc_delete_volume"]))

\* self.delete_volume(volume)
create_volume_from_snapshot_exc_delete_volume(t) ==
    /\ At(t, "create_volume_from_snapshot", "exc_delete_volume")
    /\ Local(t, Invoke(t, [Frame(t) EXCEPT !.pc = "exc_raise"],
                       delete_volume_frame(Frame(t).volume)))

\* raise exception.KaminarioCinderDriverException
create_volume_from_snapshot_exc_raise(t) ==
    /\ At(t, "create_volume_from_snapshot", "exc_raise")
    /\ Local(t, Raise(t, "KaminarioCinderDriverException"))

create_volume_from_snapshot(t) ==
    \/ create_volume_from_snapshot_get_policy(t)
    \/ create_volume_from_snapshot_snap_search(t)
    \/ create_volume_from_snapshot_view_save(t)
    \/ create_volume_from_snapshot_init_view(t)
    \/ create_volume_from_snapshot_connect_src(t)
    \/ create_volume_from_snapshot_create_volume(t)
    \/ create_volume_from_snapshot_init_dest(t)
    \/ create_volume_from_snapshot_connect_dest(t)
    \/ create_volume_from_snapshot_copy(t)
    \/ create_volume_from_snapshot_disconnect(t)
    \/ create_volume_from_snapshot_term_dest(t)
    \/ create_volume_from_snapshot_term_view(t)
    \/ create_volume_from_snapshot_view_delete(t)
    \/ create_volume_from_snapshot_exc_disconnect(t)
    \/ create_volume_from_snapshot_exc_term_view(t)
    \/ create_volume_from_snapshot_exc_term_dest(t)
    \/ create_volume_from_snapshot_exc_view_delete(t)
    \/ create_volume_from_snapshot_exc_delete_volume(t)
    \/ create_volume_from_snapshot_exc_raise(t)

-----------------------------------------------------------------------------
(* Arrays the driver's own operations leave behind, used as starting points:
   volumes made by create_volume (a group cvg-<id> holding cv-<id>), groups
   left without their volume by a delete_volume that failed half way, and
   the mappings of a host made by k2_initialize_connection. *)

PairVg(i) == [id |-> i, name |-> get_volume_group_name(i), is_dedup |-> TRUE]
PairVol(i) == [id |-> NVolIds + i, name |-> get_volume_name(i),
               size |-> VolumeSize * Mi, volume_group |-> i]
TheHost == [id |-> 2 * NVolIds + 1, name |-> get_initiator_host_name(Connector)]
MappingOf(i) == [id |-> 2 * NVolIds + 1 + i, volume |-> NVolIds + i, host |-> TheHost.id]
FirstFreeId == 4 * NVolIds + 10

ArrayWith(managed, orphans, mapped) ==
    [volume_groups |-> {PairVg(i) : i \in managed \cup orphans},
     volumes |-> {PairVol(i) : i \in managed},
     snapshots |-> {},
     hosts |-> IF mapped = {} THEN {} ELSE {TheHost},
     mappings |-> {MappingOf(i) : i \in mapped},
     nextid |-> FirstFreeId]

IdleOn(array) ==
    /\ k2 = array
    /\ stack = [t \in Threads |-> <<>>]
    /\ result = [t \in Threads |-> NoResult]
    /\ nfail = [t \in Threads |-> 0]
    /\ hfail = [t \in Threads |-> 0]
    /\ call = [t \in Threads |-> NoCall]
    /\ pre = [t \in Threads |-> array]
    /\ prev = [t \in Threads |-> NoCall]
    /\ ncalls = [t \in Threads |-> 0]

\* the one thread of the sequential specifications
Caller == 1

-----------------------------------------------------------------------------
(* Specification: the orchestrator calls create_volume *)

BeginCreateVolume(t) ==
    \E volume \in Volumes :
        Begin(t, 1, [op |-> "create_volume", args |-> [volume |-> volume]],
              create_volume_frame(volume))

InitCreateVolume ==
    /\ TransportInit
    /\ \E managed \in SUBSET VolIds :
        \E orphans \in SUBSET (VolIds \ managed) :
            IdleOn(ArrayWith(managed, orphans, {}))

NextCreateVolume ==
    \/ BeginCreateVolume(Caller)
    \/ create_volume(Caller)

SpecCreateVolume == InitCreateVolume /\ [][NextCreateVolume]_vars

-----------------------------------------------------------------------------
(* Specification: the orchestrator calls create_volume on several threads at
   once, each for a volume id of its own; the calls interleave request by
   request *)

\* the two threads that call at once
ConcurrentCallers == {Caller, Caller + 1}

\* The ids of the calls the other threads have made.
IdsOfOthers(t) ==
    {call[u].args.volume.id : u \in {u \in ConcurrentCallers \ {t} : call[u].op # "none"}}

BeginConcurrentCreateVolume(t) ==
    \E volume \in {v \in PlainVolumes : v.id \notin IdsOfOthers(t)} :
        Begin(t, 1, [op |-> "create_volume", args |-> [volume |-> volume]],
              create_volume_frame(volume))

NextConcurrentCreateVolume ==
    \E t \in ConcurrentCallers :
        \/ BeginConcurrentCreateVolume(t)
        \/ create_volume(t)

SpecConcurrentCreateVolume == InitCreateVolume /\ [][NextConcurrentCreateVolume]_vars

-----------------------------------------------------------------------------
(* Specification: the orchestrator calls delete_volume *)

BeginDeleteVolume(t) ==
    \E volume \in Volumes :
        Begin(t, MaxCalls, [op |-> "delete_volume", args |-> [volume |-> volume]],
              delete_volume_frame(volume))

InitDeleteVolume ==
    /\ TransportInit
    /\ \E managed \in SUBSET VolIds :
        \E orphans \in SUBSET (VolIds \ managed) :
            \E mapped \in SUBSET managed :
                IdleOn(ArrayWith(managed, orphans, mapped))

NextDeleteVolume ==
    \/ BeginDeleteVolume(Caller)
    \/ delete_volume(Caller)

SpecDeleteVolume == InitDeleteVolume /\ [][NextDeleteVolume]_vars

-----------------------------------------------------------------------------
(* Specification: the orchestrator calls terminate_connection *)

BeginTerminateConnection(t) ==
    \E volume \in Volumes :
        Begin(t, MaxCalls, [op |-> "terminate_connection",
                  args |-> [volume |-> volume, connector |-> Connector]],
              terminate_connection_frame(CinderVolume(volume), Connector))

InitTerminateConnection ==
    /\ TransportInit
    /\ \E managed \in SUBSET VolIds :
        \E mapped \in SUBSET managed :
            IdleOn(ArrayWith(managed, {}, mapped))

NextTerminateConnection ==
    \/ BeginTerminateConnection(Caller)
    \/ terminate_connection(Caller)

SpecTerminateConnection == InitTerminateConnection /\ [][NextTerminateConnection]_vars

-----------------------------------------------------------------------------
(* Specification: the orchestrator calls manage_existing on a volume that was
   made outside the driver, in a group of its own *)

ExtVolName == <<"ext-", 1>>
ExtVgName == <<"extvg-", 1>>
ExtVg(is_dedup) == [id |-> 3 * NVolIds + 2, name |-> ExtVgName, is_dedup |-> is_dedup]
ExtVol == [id |-> 3 * NVolIds + 3, name |-> ExtVolName, size |-> VolumeSize * Mi,
           volume_group |-> 3 * NVolIds + 2]
ExtMapping == [id |-> 3 * NVolIds + 4, volume |-> ExtVol.id, host |-> TheHost.id]

ArrayWithExt(managed, is_dedup, ext_mapped) ==
    LET a == ArrayWith(managed, {}, {}) IN
    [a EXCEPT !.volume_groups = @ \cup {ExtVg(is_dedup)},
              !.volumes = @ \cup {ExtVol},
              !.hosts = IF ext_mapped THEN {TheHost} ELSE {},
              !.mappings = IF ext_mapped THEN {ExtMapping} ELSE {}]

\* existing_ref['source-name']: the external volume, or a name nothing has
ExistingRefs == {[source_name |-> ExtVolName], [source_name |-> <<"ext-", 2>>]}

BeginManageExisting(t) ==
    \E volume \in Volumes, existing_ref \in ExistingRefs :
        Begin(t, 1, [op |-> "manage_existing",
                  args |-> [volume |-> volume, existing_ref |-> existing_ref]],
              manage_existing_frame(volume, existing_ref))

InitManageExisting ==
    /\ TransportInit
    /\ \E managed \in SUBSET VolIds, is_dedup \in BOOLEAN, ext_mapped \in BOOLEAN :
            IdleOn(ArrayWithExt(managed, is_dedup, ext_mapped))

NextManageExisting ==
    \/ BeginManageExisting(Caller)
    \/ manage_existing(Caller)

SpecManageExisting == InitManageExisting /\ [][NextManageExisting]_vars

-----------------------------------------------------------------------------
(* create_snapshot, delete_snapshot, extend_volume *)

create_snapshot_frame(snapshot) ==
    [fn |-> "create_snapshot", pc |-> "get_policy", ex |-> "none", ret |-> None,
     snapshot |-> snapshot, vg |-> None]

\* rpolicy = self.get_policy(), whose own try block re-raises as the driver's
\* exception
create_snapshot_get_policy(t) ==
    /\ At(t, "create_snapshot", "get_policy")
    /\ Request(t, Accept(k2, None), Goto(t, [Frame(t) EXCEPT !.pc = "vg_search"]))

\* vg = self.client.search("volume_groups", name=vg_name).hits[0]
create_snapshot_vg_search(t) ==
    /\ At(t, "create_snapshot", "vg_search")
    /\ LET f == Frame(t)
           rs == SearchName(k2.volume_groups,
                            get_volume_group_name(f.snapshot.volume.id))
       IN Request(t, Accept(k2, rs),
                  IF Total(rs) # 0
                  THEN Goto(t, [f EXCEPT !.pc = "snap_save", !.vg = Hit0(rs)])
                  ELSE Raise(t, "IndexError"))

\* self.client.new("snapshots", short_name=snap_name, source=vg, ...).save()
create_snapshot_snap_save(t) ==
    /\ At(t, "create_snapshot", "snap_save")
    /\ LET f == Frame(t)
           r == NewSnapshot(k2, get_snap_name(f.snapshot.id), f.vg, FALSE)
       IN Request(t, r, Return(t, None))

create_snapshot(t) ==
    \/ create_snapshot_get_policy(t)
    \/ create_snapshot_vg_search(t)
    \/ create_snapshot_snap_save(t)

delete_snapshot_frame(snapshot) ==
    [fn |-> "delete_snapshot", pc |-> "snap_search", ex |-> "none", ret |-> None,
     snapshot |-> snapshot, snap |-> None]

\* snap_rs = self.client.search("snapshots", short_name=snap_name)
\* if snap_rs.total != 0
delete_snapshot_snap_search(t) ==
    /\ At(t, "delete_snapshot", "snap_search")
    /\ LET f == Frame(t)
           snap_rs == SearchName(k2.snapshots, get_snap_name(f.snapshot.id))
       IN Request(t, Accept(k2, snap_rs),
                  IF Total(snap_rs) # 0
                  THEN Goto(t, [f EXCEPT !.pc = "snap_delete", !.snap = Hit0(snap_rs)])
                  ELSE Return(t, None))

\* snap_rs.hits[0].delete()
delete_snapshot_snap_delete(t) ==
    /\ At(t, "delete_snapshot", "snap_delete")
    /\ Request(t, DeleteSnapshotObj(k2, Frame(t).snap), Return(t, None))

delete_snapshot(t) ==
    \/ delete_snapshot_snap_search(t)
    \/ delete_snapshot_snap_delete(t)

extend_volume_frame(volume, new_size) ==
    [fn |-> "extend_volume", pc |-> "vol_search", ex |-> "none", ret |-> None,
     volume |-> volume, vol |-> None, new_size |-> new_size]

\* vol = self.client.search("volumes", name=vol_name).hits[0]
extend_volume_vol_search(t) ==
    /\ At(t, "extend_volume", "vol_search")
    /\ LET f == Frame(t)
           rs == SearchName(k2.volumes, get_volume_name(f.volume.id))
       IN Request(t, Accept(k2, rs),
                  IF Total(rs) # 0
                  THEN Goto(t, [f EXCEPT !.pc = "vol_save", !.vol = Hit0(rs)])
                  ELSE Raise(t, "IndexError"))

\* vol.size = new_size * units.Mi; vol.save()
extend_volume_vol_save(t) ==
    /\ At(t, "extend_volume", "vol_save")
    /\ LET f == Frame(t) IN
       Request(t, ResizeVolume(k2, f.vol, f.new_size * Mi), Return(t, None))

extend_volume(t) ==
    \/ extend_volume_vol_search(t)
    \/ extend_volume_vol_save(t)

-----------------------------------------------------------------------------
(* after_volume_copy: no try block *)

after_volume_copy_frame(volume, new_volume) ==
    [fn |-> "after_volume_copy", pc |-> "delete_volume", ex |-> "none",
     ret |-> None, volume |-> volume, vol |-> None, vg |-> None,
     new_volume |-> new_volume]

after_volume_copy_delete_volume_Skipped(t) ==
    /\ At(t, "after_volume_copy", "delete_volume")
    /\ Local(t, Goto(t, [Frame(t) EXCEPT !.pc = "vg_search"]))

\* self.delete_volume(volume)
after_volume_copy_delete_volume(t) ==
    /\ At(t, "after_volume_copy", "delete_volume")
    /\ LET f == Frame(t) IN
       Local(t, Invoke(t, [f EXCEPT !.pc = "vg_search"], delete_volume_frame(f.volume)))

\* vg_new = self.client.search("volume_groups", name=vg_name_new).hits[0]
after_volume_copy_vg_search(t) ==
    /\ At(t, "after_volume_copy", "vg_search")
    /\ LET f == Frame(t)
           rs == SearchName(k2.volume_groups, get_volume_group_name(f.new_volume.id))
       IN Request(t, Accept(k2, rs),
                  IF Total(rs) # 0
                  THEN Goto(t, [f EXCEPT !.pc = "vg_save", !.vg = Hit0(rs)])
                  ELSE Raise(t, "IndexError"))

\* vg_new.name = vg_name_old; vg_new.save()
after_volume_copy_vg_save(t) ==
    /\ At(t, "after_volume_copy", "vg_save")
    /\ LET f == Frame(t) IN
       Request(t, RenameVolumeGroup(k2, f.vg, get_volume_group_name(f.volume.id)),
               Goto(t, [f EXCEPT !.pc = "vol_search"]))

\* vol_new = self.client.search("volumes", name=vol_name_new).hits[0]
after_volume_copy_vol_search(t) ==
    /\ At(t, "after_volume_copy", "vol_search")
    /\ LET f == Frame(t)
           rs == SearchName(k2.volumes, get_volume_name(f.new_volume.id))
       IN Request(t, Accept(k2, rs),
                  IF Total(rs) # 0
                  THEN Goto(t, [f EXCEPT !.pc = "vol_save", !.vol = Hit0(rs)])
                  ELSE Raise(t, "IndexError"))

\* vol_new.name = vol_name_old; vol_new.save()
after_volume_copy_vol_save(t) ==
    /\ At(t, "after_volume_copy", "vol_save")
    /\ LET f == Frame(t) IN
       Request(t, RenameVolume(k2, f.vol, get_volume_name(f.volume.id)),
               Return(t, None))

after_volume_copy(t) ==
    \/ after_volume_copy_delete_volume(t)
    \/ after_volume_copy_vg_search(t)
    \/ after_volume_copy_vg_save(t)
    \/ after_volume_copy_vol_search(t)
    \/ after_volume_copy_vol_save(t)

-----------------------------------------------------------------------------
(* manage_existing_get_size *)

\* vol.size / units.Mi on two integers: Python 2 gives the floor of the
\* quotient, Python 3 the exact quotient. The module has no
\* "from __future__ import division", so the interpreter decides.
Divisions == {"floor", "true"}

\* math.ceil of the exact quotient a / b
CeilDiv(a, b) == (a + b - 1) \div b

\* math.ceil(vol.size / units.Mi): the ceiling of an already floored quotient is
\* that quotient
ceil_size(size, division) ==
    IF division = "floor" THEN size \div Mi ELSE CeilDiv(size, Mi)

manage_existing_get_size_frame(volume, existing_ref) ==
    [fn |-> "manage_existing_get_size", pc |-> "vol_search", ex |-> "none",
     ret |-> None, volume |-> volume, existing_ref |-> existing_ref]

\* v_rs = self.client.search("volumes", name=vol_name); if v_rs.total != 0:
\* return math.ceil(vol.size / units.Mi), else raise. No try block.
manage_existing_get_size_vol_search(t) ==
    /\ At(t, "manage_existing_get_size", "vol_search")
    /\ LET f == Frame(t)
           rs == SearchName(k2.volumes, f.existing_ref.source_name)
       IN Request(t, Accept(k2, rs),
                  IF Total(rs) # 0
                  THEN \E division \in Divisions :
                            Return(t, ceil_size(Hit0(rs).size, division))
                  ELSE Raise(t, "ManageExistingInvalidReference"))

manage_existing_get_size(t) ==
    manage_existing_get_size_vol_search(t)

-----------------------------------------------------------------------------
(* Specification: the orchestrator calls manage_existing_get_size on a volume
   that was made outside the driver; the array reports its size in units of
   which units.Mi make one of cinder's *)

ExtSizes == {Mi - 1, Mi, Mi + 1, Mi + Mi \div 2, 2 * Mi, 3 * Mi - 1}

ArrayWithExtSize(managed, size) ==
    LET a == ArrayWithExt(managed, FALSE, FALSE) IN
    [a EXCEPT !.volumes = (@ \ {ExtVol}) \cup {[ExtVol EXCEPT !.size = size]}]

BeginManageExistingGetSize(t) ==
    \E volume \in Volumes, existing_ref \in ExistingRefs :
        Begin(t, 1, [op |-> "manage_existing_get_size",
                  args |-> [volume |-> volume, existing_ref |-> existing_ref]],
              manage_existing_get_size_frame(volume, existing_ref))

InitManageExistingGetSize ==
    /\ TransportInit
    /\ \E managed \in SUBSET VolIds, size \in ExtSizes :
            IdleOn(ArrayWithExtSize(managed, size))

NextManageExistingGetSize ==
    \/ BeginManageExistingGetSize(Caller)
    \/ manage_existing_get_size(Caller)

SpecManageExistingGetSize ==
    InitManageExistingGetSize /\ [][NextManageExistingGetSize]_vars

-----------------------------------------------------------------------------
(* Specification: get_initiator_host_name is applied to a connector's host
   string, then to the name it gave *)

\* longest run of freely chosen characters in a host string
MaxHostPrefix == 2

\* characters a host string is made of: some the pattern keeps, some it replaces
HostChars == {"a", "Z", "7", "-", "_", ".", "@"}

RECURSIVE SeqsUpTo(_, _)
SeqsUpTo(S, n) ==
    IF n = 0 THEN {<<>>}
    ELSE LET shorter == SeqsUpTo(S, n - 1) IN
         shorter \cup {Append(s, c) : s \in shorter, c \in S}

Pad(c, n) == [i \in 1..n |-> c]

\* Host strings: a few free characters before or after a run of one character
\* that brings the length to just below, at and beyond 32.
HostStrings ==
    LET pads == {Pad(c, n) : c \in {"x", "#"},
                             n \in {0, HostNameLimit - 2, HostNameLimit,
                                    HostNameLimit + 5}}
        free == SeqsUpTo(HostChars, MaxHostPrefix)
    IN {p \o f : p \in pads, f \in free} \cup {f \o p : p \in pads, f \in free}

get_initiator_host_name_frame(connector) ==
    [fn |-> "get_initiator_host_name", pc |-> "sub", ex |-> "none", ret |-> None,
     connector |-> connector]

\* return re.sub('[^0-9a-zA-Z-_]', '_', connector.get('host', ''))[:32]
get_initiator_host_name_sub(t) ==
    /\ At(t, "get_initiator_host_name", "sub")
    /\ Local(t, Return(t, get_initiator_host_name(Frame(t).connector)))

\* The first call is given any host string, the second the name the first gave.
BeginHostName(t) ==
    \E host \in IF ncalls[t] = 0 THEN HostStrings ELSE {result[t].val} :
        Begin(t, 2, [op |-> "get_initiator_host_name",
                     args |-> [connector |-> [host |-> host]]],
              get_initiator_host_name_frame([host |-> host]))

InitHostName == TransportInit /\ IdleOn(EmptyArray)

NextHostName ==
    \/ BeginHostName(Caller)
    \/ get_initiator_host_name_sub(Caller)

SpecHostName == InitHostName /\ [][NextHostName]_vars

-----------------------------------------------------------------------------
(* Specification: the orchestrator's initialize_connection reaches
   k2_initialize_connection with a cinder volume and the connector of its host *)

BeginInitializeConnection(t) ==
    \E volume \in Volumes :
        Begin(t, 1, [op |-> "k2_initialize_connection",
                     args |-> [volume |-> volume, connector |-> Connector]],
              k2_initialize_connection_frame(CinderVolume(volume), Connector))

NextInitializeConnection ==
    \/ BeginInitializeConnection(Caller)
    \/ k2_initialize_connection(Caller)

SpecInitializeConnection == InitTerminateConnection /\ [][NextInitializeConnection]_vars

-----------------------------------------------------------------------------
(* Specification: the orchestrator calls after_volume_copy(volume, new_volume)
   once a migration has copied volume to new_volume *)

BeginAfterVolumeCopy(t) ==
    \E volume \in PlainVolumes, new_volume \in PlainVolumes :
        /\ volume.id # new_volume.id
        /\ Begin(t, 1, [op |-> "after_volume_copy",
                        args |-> [volume |-> volume, new_volume |-> new_volume]],
                 after_volume_copy_frame(volume, new_volume))

NextAfterVolumeCopy ==
    \/ BeginAfterVolumeCopy(Caller)
    \/ after_volume_copy(Caller)
    \/ delete_volume(Caller)

SpecAfterVolumeCopy == InitDeleteVolume /\ [][NextAfterVolumeCopy]_vars

-----------------------------------------------------------------------------
(* _check_for_status: obj is the driver's copy of an array object, obj.state
   the state the array reported when the copy was last fetched or refreshed *)

_check_for_status_frame(obj, status) ==
    [obj |-> obj, fn |-> "_check_for_status", pc |-> "test", ex |-> "none",
     ret |-> None, status |-> status]

\* while obj.state != status:
_check_for_status_test(t) ==
    /\ At(t, "_check_for_status", "test")
    /\ LET f == Frame(t) IN
       Local(t, IF f.obj.state # f.status
                THEN Goto(t, [f EXCEPT !.pc = "refresh"])
                ELSE Return(t, None))

_check_for_status_refresh_Stale(t) ==
    /\ At(t, "_check_for_status", "refresh")
    /\ LET f == Frame(t) IN
       Request(t, Accept(k2, ById(k2.volumes, f.obj.id)),
               Goto(t, [f EXCEPT !.pc = "sleep"]))

\* obj.refresh(): one request; the copy takes what the array reports
_check_for_status_refresh(t) ==
    /\ At(t, "_check_for_status", "refresh")
    /\ LET f == Frame(t)
           r == IF ById(k2.volumes, f.obj.id) # {}
                THEN Accept(k2, Hit0(ById(k2.volumes, f.obj.id)))
                ELSE Reject(k2)
       IN Request(t, r, Goto(t, [f EXCEPT !.pc = "sleep", !.obj = r.val]))

\* eventlet.sleep(1): the green thread yields and is resumed later
_check_for_status_sleep(t) ==
    /\ At(t, "_check_for_status", "sleep")
    /\ Local(t, Goto(t, [Frame(t) EXCEPT !.pc = "test"]))

_check_for_status(t) ==
    \/ _check_for_status_test(t)
    \/ _check_for_status_refresh(t)
    \/ _check_for_status_sleep(t)

-----------------------------------------------------------------------------
(* Specification: a thread waits in _check_for_status for an object of the
   array to reach a state, while the array moves the object from state to
   state on its own *)

\* states the array reports for an object
States == {"creating", "available", "error"}

\* the object waited for, in state s
Entity(s) ==
    [id |-> NVolIds + 1, name |-> get_volume_name(1), size |-> VolumeSize * Mi,
     volume_group |-> 1, state |-> s]

ArrayWithEntity(s) ==
    [EmptyArray EXCEPT !.volume_groups = {PairVg(1)}, !.volumes = {Entity(s)}]

\* The array changes the object's state.
EntityChanges ==
    /\ \E s \in States : k2' = [k2 EXCEPT !.volumes = {Entity(s)}]
    /\ k2' # k2
    /\ UNCHANGED <<stack, result, nfail, hfail, call, pre, prev, ncalls>>
    /\ UNCHANGED tvars

\* The caller passes the copy it has just fetched.
BeginCheckForStatus(t) ==
    \E obj \in k2.volumes, status \in States :
        Begin(t, 1, [op |-> "_check_for_status",
                     args |-> [obj |-> obj, status |-> status]],
              _check_for_status_frame(obj, status))

InitCheckForStatus ==
    /\ TransportInit
    /\ \E s \in States : IdleOn(ArrayWithEntity(s))

NextCheckForStatus ==
    \/ BeginCheckForStatus(Caller)
    \/ _check_for_status(Caller)
    \/ EntityChanges

SpecCheckForStatus == InitCheckForStatus /\ [][NextCheckForStatus]_vars

\* eventlet resumes a green thread that sleeps or is ready to run: the waiting
\* thread's next step is taken once it stays possible.
SpecCheckForStatusFair == SpecCheckForStatus /\ WF_vars(_check_for_status(Caller))

-----------------------------------------------------------------------------
(* Specification: two threads call terminate_connection and
   k2_initialize_connection at once, each once, with the connector of the one
   initiator host; the calls interleave request by request *)

BeginConcurrentConnections(t) ==
    \E volume \in PlainVolumes :
        \/ Begin(t, 1, [op |-> "terminate_connection",
                        args |-> [volume |-> volume, connector |-> Connector]],
                 terminate_connection_frame(CinderVolume(volume), Connector))
        \/ Begin(t, 1, [op |-> "k2_initialize_connection",
                        args |-> [volume |-> volume, connector |-> Connector]],
                 k2_initialize_connection_frame(CinderVolume(volume), Connector))

NextConcurrentConnections ==
    \E t \in ConcurrentCallers :
        \/ BeginConcurrentConnections(t)
        \/ terminate_connection(t)
        \/ k2_initialize_connection(t)

SpecConcurrentConnections ==
    InitTerminateConnection /\ [][NextConcurrentConnections]_vars

-----------------------------------------------------------------------------
(* Specification: the orchestrator calls create_volume, delete_volume,
   manage_existing and after_volume_copy one after the other, on an array whose
   volumes cv-<id> all have their group cvg-<id>, with an external volume to
   manage *)

ArrayPaired(managed, orphans, mapped, is_dedup) ==
    LET a == ArrayWith(managed, orphans, mapped) IN
    [a EXCEPT !.volume_groups = @ \cup {ExtVg(is_dedup)}, !.volumes = @ \cup {ExtVol}]

BeginPairing(t) ==
    \E volume \in PlainVolumes :
        \/ Begin(t, MaxCalls, [op |-> "create_volume", args |-> [volume |-> volume]],
                 create_volume_frame(volume))
        \/ Begin(t, MaxCalls, [op |-> "delete_volume", args |-> [volume |-> volume]],
                 delete_volume_frame(volume))
        \/ \E existing_ref \in ExistingRefs :
              Begin(t, MaxCalls, [op |-> "manage_existing",
                                  args |-> [volume |-> volume, existing_ref |-> existing_ref]],
                    manage_existing_frame(volume, existing_ref))
        \/ \E new_volume \in PlainVolumes \ {volume} :
              Begin(t, MaxCalls, [op |-> "after_volume_copy",
                                  args |-> [volume |-> volume, new_volume |-> new_volume]],
                    after_volume_copy_frame(volume, new_volume))

InitPairing ==
    /\ TransportInit
    /\ \E managed \in SUBSET VolIds :
        \E orphans \in SUBSET (VolIds \ managed), mapped \in SUBSET managed,
           is_dedup \in BOOLEAN :
            IdleOn(ArrayPaired(managed, orphans, mapped, is_dedup))

NextPairing ==
    \/ BeginPairing(Caller)
    \/ create_volume(Caller)
    \/ delete_volume(Caller)
    \/ manage_existing(Caller)
    \/ after_volume_copy(Caller)

SpecPairing == InitPairing /\ [][NextPairing]_vars

-----------------------------------------------------------------------------
(* Specification: the orchestrator calls create_cloned_volume *)

BeginCreateClonedVolume(t) ==
    \E volume \in PlainVolumes, src_vref \in PlainVolumes :
        Begin(t, 1, [op |-> "create_cloned_volume",
                     args |-> [volume |-> volume, src_vref |-> src_vref]],
              create_cloned_volume_frame(volume, src_vref))

InitCreateClonedVolume ==
    /\ TransportInit
    /\ \E managed \in SUBSET VolIds :
        \E mapped \in SUBSET managed :
            IdleOn(ArrayWith(managed, {}, mapped))

NextCreateClonedVolume ==
    \/ BeginCreateClonedVolume(Caller)
    \/ create_cloned_volume(Caller)
    \/ create_volume(Caller)
    \/ delete_volume(Caller)
    \/ k2_initialize_connection(Caller)
    \/ terminate_connection(Caller)

SpecCreateClonedVolume == InitCreateClonedVolume /\ [][NextCreateClonedVolume]_vars

-----------------------------------------------------------------------------
(* Specification: two threads call create_cloned_volume at once, each once,
   with the same source volume and the same local host, each for a destination
   of its own; the calls interleave request by request *)

\* the destination volume of thread t's clone: an id nothing else uses
Destination(t) == [id |-> NVolIds + t, size |-> VolumeSize, volume_type |-> PlainType]

\* the source volume of both clones
SourceOfClones == [id |-> 1, size |-> VolumeSize, volume_type |-> PlainType]

\* Both calls arrive before either has made a request: a call that arrives
\* later runs as one that arrived then and made its first request later.
BeginConcurrentClones(t) ==
    /\ \A u \in ConcurrentCallers \ {t} :
          call[u].op = "none" \/ At(u, "create_cloned_volume", "src_search")
    /\ Begin(t, 1, [op |-> "create_cloned_volume",
                 args |-> [volume |-> Destination(t), src_vref |-> SourceOfClones]],
          create_cloned_volume_frame(Destination(t), SourceOfClones))

\* the source is on the array with its group, attached to no host
InitConcurrentClones ==
    /\ TransportInit
    /\ IdleOn(ArrayWith({SourceOfClones.id}, {}, {}))

NextConcurrentClones ==
    \E t \in ConcurrentCallers :
        \/ BeginConcurrentClones(t)
        \/ create_cloned_volume(t)
        \/ create_volume(t)
        \/ delete_volume(t)
        \/ k2_initialize_connection(t)
        \/ terminate_connection(t)

SpecConcurrentClones == InitConcurrentClones /\ [][NextConcurrentClones]_vars

-----------------------------------------------------------------------------
(* Specification: the orchestrator calls create_volume_from_snapshot *)

PairSnap(i) == [id |-> 3 * NVolIds + 1 + i, name |-> get_snap_name(i),
                source |-> i, is_exposable |-> FALSE]

ArrayWithSnapshots(managed, mapped, snapped) ==
    [ArrayWith(managed, {}, mapped) EXCEPT !.snapshots = {PairSnap(i) : i \in snapped}]

BeginCreateVolumeFromSnapshot(t) ==
    \E volume \in PlainVolumes, snapshot \in Snapshots :
        Begin(t, 1, [op |-> "create_volume_from_snapshot",
                     args |-> [volume |-> volume, snapshot |-> snapshot]],
              create_volume_from_snapshot_frame(volume, snapshot))

InitCreateVolumeFromSnapshot ==
    /\ TransportInit
    /\ \E managed \in SUBSET VolIds :
        \E mapped \in SUBSET managed, snapped \in SUBSET managed :
            IdleOn(ArrayWithSnapshots(managed, mapped, snapped))

NextCreateVolumeFromSnapshot ==
    \/ BeginCreateVolumeFromSnapshot(Caller)
    \/ create_volume_from_snapshot(Caller)
    \/ create_volume(Caller)
    \/ delete_volume(Caller)
    \/ k2_initialize_connection(Caller)
    \/ _get_lun_number(Caller)
    \/ terminate_connection(Caller)

SpecCreateVolumeFromSnapshot ==
    InitCreateVolumeFromSnapshot /\ [][NextCreateVolumeFromSnapshot]_vars

-----------------------------------------------------------------------------
(* Specification: the orchestrator calls one of the lifecycle operations on an
   array that holds pairs, snapshots and mappings the driver made and one
   volume made outside the driver *)

\* new_size of extend_volume
NewSizes == {VolumeSize + 1}

ArrayLifecycle(managed, mapped, snapped) ==
    LET a == ArrayWithSnapshots(managed, mapped, snapped) IN
    [a EXCEPT !.volume_groups = @ \cup {ExtVg(TRUE)}, !.volumes = @ \cup {ExtVol}]

BeginLifecycle(t) ==
    \/ \E volume \in PlainVolumes :
          \/ Begin(t, 1, [op |-> "create_volume", args |-> [volume |-> volume]],
                   create_volume_frame(volume))
          \/ Begin(t, 1, [op |-> "delete_volume", args |-> [volume |-> volume]],
                   delete_volume_frame(volume))
          \/ \E new_size \in NewSizes :
                Begin(t, 1, [op |-> "extend_volume",
                             args |-> [volume |-> volume, new_size |-> new_size]],
                      extend_volume_frame(volume, new_size))
          \/ \E existing_ref \in ExistingRefs :
                Begin(t, 1, [op |-> "manage_existing",
                             args |-> [volume |-> volume, existing_ref |-> existing_ref]],
                      manage_existing_frame(volume, existing_ref))
          \/ \E src_vref \in PlainVolumes :
                Begin(t, 1, [op |-> "create_cloned_volume",
                             args |-> [volume |-> volume, src_vref |-> src_vref]],
                      create_cloned_volume_frame(volume, src_vref))
          \/ \E snapshot \in Snapshots :
                Begin(t, 1, [op |-> "create_volume_from_snapshot",
                             args |-> [volume |-> volume, snapshot |-> snapshot]],
                      create_volume_from_snapshot_frame(volume, snapshot))
          \/ \E new_volume \in PlainVolumes \ {volume} :
                Begin(t, 1, [op |-> "after_volume_copy",
                             args |-> [volume |-> volume, new_volume |-> new_volume]],
                      after_volume_copy_frame(volume, new_volume))
    \/ \E snapshot \in Snapshots :
          \/ Begin(t, 1, [op |-> "create_snapshot", args |-> [snapshot |-> snapshot]],
                   create_snapshot_frame(snapshot))
          \/ Begin(t, 1, [op |-> "delete_snapshot", args |-> [snapshot |-> snapshot]],
                   delete_snapshot_frame(snapshot))

InitLifecycle ==
    /\ TransportInit
    /\ \E managed \in SUBSET VolIds :
        \E mapped \in SUBSET managed, snapped \in SUBSET managed :
            IdleOn(ArrayLifecycle(managed, mapped, snapped))

NextLifecycle ==
    \/ BeginLifecycle(Caller)
    \/ create_volume(Caller)
    \/ delete_volume(Caller)
    \/ create_snapshot(Caller)
    \/ delete_snapshot(Caller)
    \/ extend_volume(Caller)
    \/ manage_existing(Caller)
    \/ after_volume_copy(Caller)
    \/ create_cloned_volume(Caller)
    \/ create_volume_from_snapshot(Caller)
    \/ k2_initialize_connection(Caller)
    \/ _get_lun_number(Caller)
    \/ terminate_connection(Caller)

SpecLifecycle == InitLifecycle /\ [][NextLifecycle]_vars

-----------------------------------------------------------------------------
(* Claims on the transport, checked under SpecTransport *)

InCycle(t) == tpc[t] = "inflight"

\* C6: when every answer to a call was HTTP 400 with a recognised busy code,
\* the call never puts more than MAX_K2_RETRY (5) requests on the wire, and
\* when it ends it has sent exactly 5 and has failed.
C6_RetryBound ==
    \A t \in Threads :
        busyOnly[t] =>
            /\ sent[t] <= 5
            /\ tpc[t] = "done" => (sent[t] = 5 /\ outcome[t] # "response")

C6_Witness ==
    \E t \in Threads : tpc[t] = "done" /\ busyOnly[t] /\ sent[t] = 5

\* C7 as stated: once the retry bound is exhausted on busy answers, the caller
\* gets the non-retryable HTTP error kind.
C7_Original ==
    \A t \in Threads :
        (tpc[t] = "done" /\ busyOnly[t]) => outcome[t] = "K2HTTPError"

\* C7 amended: once the retry bound is exhausted on busy answers, the caller
\* gets the retryable kind raised by the last attempt
\* (KaminarioRetryableException); nothing converts it.
C7_ExhaustedRaisesRetryable ==
    \A t \in Threads :
        (tpc[t] = "done" /\ busyOnly[t]) => outcome[t] = "KaminarioRetryableException"

C7_Witness ==
    \E t \in Threads :
        /\ tpc[t] = "done" /\ busyOnly[t]
        /\ attempt_number[t] = MAX_K2_RETRY
        /\ outcome[t] = "KaminarioRetryableException"

\* C8: at most one thread is inside the request/response cycle.
C8_MutualExclusion ==
    \A t, u \in Threads : (InCycle(t) /\ InCycle(u)) => t = u

C8_Witness ==
    \E t, u \in Threads : t # u /\ InCycle(t) /\ tpc[u] = "acquire"

\* C9 as stated: while a call is between two of its attempts, no request of
\* another thread is on the wire.
C9_Original ==
    \A t, u \in Threads :
        (t # u /\ tpc[t] = "backoff") => ~InCycle(u)

\* C9 amended: the lock is held by a thread exactly from its acquire to the end
\* of that one attempt; a call waiting to retry does not hold it.
C9_LockHeldPerAttempt ==
    \A t \in Threads :
        /\ tpc[t] \in {"locked", "inflight", "received"} => krestlock = t
        /\ tpc[t] \in {"backoff", "acquire"} => krestlock # t

C9_Witness ==
    \E t, u \in Threads :
        /\ t # u
        /\ tpc[t] = "backoff" /\ attempt_number[t] >= 1
        /\ InCycle(u)

-----------------------------------------------------------------------------
(* Claims on create_volume, checked under SpecCreateVolume *)

HasGroup(k, vid) == SearchName(k.volume_groups, get_volume_group_name(vid)) # {}
HasVolume(k, vid) == SearchName(k.volumes, get_volume_name(vid)) # {}
Paired(k, vid) == HasGroup(k, vid) <=> HasVolume(k, vid)
Absent(k, vid) == ~HasGroup(k, vid) /\ ~HasVolume(k, vid)

\* C1: create_volume(id), called when cvg-<id> and cv-<id> both exist or are
\* both absent and suffering at most one injected request failure, ends
\* (returning or raising) with both on the array or with neither; when it
\* returns, both exist.
C1_CreateVolumeAtomic ==
    \A t \in Threads :
        (/\ Ended(t, "create_volume")
         /\ nfail[t] <= 1
         /\ Paired(pre[t], call[t].args.volume.id))
        => /\ Paired(k2, call[t].args.volume.id)
           /\ result[t].status = "returned" => HasVolume(k2, call[t].args.volume.id)

\* the volume save failed after the group was made, and the group is gone again
C1_Witness ==
    \E t \in Threads :
        /\ Ended(t, "create_volume")
        /\ nfail[t] = 1
        /\ result[t] = Raised("KaminarioCinderDriverException")
        /\ Absent(pre[t], call[t].args.volume.id)
        /\ Absent(k2, call[t].args.volume.id)
        /\ k2.nextid = pre[t].nextid + 1

-----------------------------------------------------------------------------
(* Claims on delete_volume, checked under SpecDeleteVolume *)

\* C4: with no request failing, delete_volume(id) on an id whose volume and
\* group are both absent returns and leaves the array as it was, and a second
\* delete_volume(id) right after a first leaves the array as the first left it.
C4_DeleteVolumeIdempotent ==
    \A t \in Threads :
        (Ended(t, "delete_volume") /\ nfail[t] = 0)
        => /\ Absent(pre[t], call[t].args.volume.id)
                => (result[t] = Returned /\ Objects(k2) = Objects(pre[t]))
           /\ (/\ prev[t].op = "delete_volume"
               /\ prev[t].args.volume.id = call[t].args.volume.id
               /\ prev[t].nfail = 0)
                => Objects(k2) = Objects(pre[t])

\* the first call deleted the pair, the second found nothing and returned
C4_Witness ==
    \E t \in Threads :
        /\ Ended(t, "delete_volume") /\ nfail[t] = 0 /\ result[t] = Returned
        /\ prev[t].op = "delete_volume"
        /\ prev[t].args.volume.id = call[t].args.volume.id
        /\ prev[t].nfail = 0 /\ prev[t].result = Returned
        /\ HasVolume(prev[t].pre, call[t].args.volume.id)
        /\ HasGroup(prev[t].pre, call[t].args.volume.id)
        /\ Absent(pre[t], call[t].args.volume.id)
        /\ Objects(k2) = Objects(pre[t])

-----------------------------------------------------------------------------
(* Claims on terminate_connection, checked under SpecTerminateConnection *)

HostOf(k, connector) == SearchName(k.hosts, get_initiator_host_name(connector))
VolumeOf(k, vid) == SearchName(k.volumes, get_volume_name(vid))

\* the mappings of array k between volume cv-<vid> and the connector's host
TargetMappings(k, vid, connector) ==
    {m \in k.mappings :
        /\ \E v \in VolumeOf(k, vid) : m.volume = v.id
        /\ \E h \in HostOf(k, connector) : m.host = h.id}

HostMappings(k, connector) ==
    {m \in k.mappings : \E h \in HostOf(k, connector) : m.host = h.id}

\* C5: with no request failing, terminate_connection on a volume mapped to the
\* host returns; when that mapping was the host's only one, the mapping and
\* the host are gone; when the host had more, only that mapping is gone and
\* the host and its other mappings remain.  Nothing else changes.
C5_TerminateConnection ==
    \A t \in Threads :
        (/\ Ended(t, "terminate_connection")
         /\ nfail[t] = 0
         /\ TargetMappings(pre[t], call[t].args.volume.id, call[t].args.connector) # {})
        => LET target == TargetMappings(pre[t], call[t].args.volume.id,
                                        call[t].args.connector)
               ofHost == HostMappings(pre[t], call[t].args.connector)
           IN /\ result[t] = Returned
              /\ k2.mappings = pre[t].mappings \ target
              /\ k2.hosts = IF Cardinality(ofHost) = 1
                            THEN pre[t].hosts \ HostOf(pre[t], call[t].args.connector)
                            ELSE pre[t].hosts
              /\ k2.volumes = pre[t].volumes
              /\ k2.volume_groups = pre[t].volume_groups

\* a first call took one of the host's two mappings and left the host, the
\* next took the last one and the host with it
C5_Witness ==
    \E t \in Threads :
        /\ Ended(t, "terminate_connection") /\ nfail[t] = 0
        /\ Cardinality(HostMappings(pre[t], call[t].args.connector)) = 1
        /\ TargetMappings(pre[t], call[t].args.volume.id, call[t].args.connector) # {}
        /\ k2.hosts = {} /\ k2.mappings = {}
        /\ prev[t].op = "terminate_connection" /\ prev[t].nfail = 0
        /\ Cardinality(HostMappings(prev[t].pre, call[t].args.connector)) >= 2
        /\ pre[t].hosts = prev[t].pre.hosts

-----------------------------------------------------------------------------
(* Claims on manage_existing, checked under SpecManageExisting *)

SourceVolume(k, existing_ref) == SearchName(k.volumes, existing_ref.source_name)

\* the existing volume's group has another dedup setting than the requested type
DedupMismatch(k, volume, existing_ref) ==
    \E v \in SourceVolume(k, existing_ref) :
        \E g \in ById(k.volume_groups, v.volume_group) :
            g.is_dedup # _get_is_dedup(volume.volume_type)

HasMapping(k, existing_ref) ==
    \E v \in SourceVolume(k, existing_ref) : \E m \in k.mappings : m.volume = v.id

\* C10: manage_existing on an existing volume whose group's dedup setting
\* differs from the requested type's, or which has a mapping, leaves every
\* object of the array as it was (names included, nothing saved), and, when no
\* request fails, raises ManageExistingInvalidReference.
C10_ManageExistingRejects ==
    \A t \in Threads :
        (/\ Ended(t, "manage_existing")
         /\ \/ DedupMismatch(pre[t], call[t].args.volume, call[t].args.existing_ref)
            \/ HasMapping(pre[t], call[t].args.existing_ref))
        => /\ Objects(k2) = Objects(pre[t])
           /\ k2.nextid = pre[t].nextid
           /\ result[t].status = "raised"
           /\ nfail[t] = 0 => result[t] = Raised("ManageExistingInvalidReference")

\* rejected for its mapping alone: the dedup settings agree
C10_Witness ==
    \E t \in Threads :
        /\ Ended(t, "manage_existing") /\ nfail[t] = 0
        /\ HasMapping(pre[t], call[t].args.existing_ref)
        /\ ~DedupMismatch(pre[t], call[t].args.volume, call[t].args.existing_ref)
        /\ result[t] = Raised("ManageExistingInvalidReference")
        /\ ExtVol \in k2.volumes

-----------------------------------------------------------------------------
(* Claims on create_cloned_volume, checked under SpecCreateClonedVolume *)

\* a mapping of array k refers to the volume cv-<vid>
IsMapped(k, vid) ==
    \E v \in VolumeOf(k, vid) : \E m \in k.mappings : m.volume = v.id

\* C3: create_cloned_volume called while a mapping refers to the source volume
\* raises, has created nothing (no object, so no group, volume, host or
\* mapping) and has deleted or changed nothing; when no request fails, what it
\* raises is the driver error.
C3_CloneRejectsMappedSource ==
    \A t \in Threads :
        (/\ Ended(t, "create_cloned_volume")
         /\ IsMapped(pre[t], call[t].args.src_vref.id))
        => /\ result[t].status = "raised"
           /\ Objects(k2) = Objects(pre[t])
           /\ k2.nextid = pre[t].nextid
           /\ nfail[t] = 0 => result[t] = Raised("KaminarioCinderDriverException")

C3_Witness ==
    \E t \in Threads :
        /\ Ended(t, "create_cloned_volume") /\ nfail[t] = 0
        /\ IsMapped(pre[t], call[t].args.src_vref.id)
        /\ ~HasVolume(pre[t], call[t].args.volume.id)
        /\ result[t] = Raised("KaminarioCinderDriverException")
        /\ ~HasGroup(k2, call[t].args.volume.id)

-----------------------------------------------------------------------------
(* Claims on create_volume_from_snapshot, checked under
   SpecCreateVolumeFromSnapshot *)

\* the views of array k named after volume vid
ViewOf(k, vid) == SearchName(k.snapshots, get_view_name(vid))

\* the call made its view: the view is the first object the method creates
ViewCreated(t) == k2.nextid > pre[t].nextid

\* C2: when a call of create_volume_from_snapshot for a destination that did
\* not exist (neither cv-<id> nor cvg-<id>) has created its view and has ended,
\* with at most one step of it having failed, the view no longer exists; and
\* if the call raised, neither the destination volume nor its group exists.
C2_ViewCleanedUp ==
    \A t \in Threads :
        (/\ Ended(t, "create_volume_from_snapshot")
         /\ ViewCreated(t)
         /\ nfail[t] <= 1
         /\ Absent(pre[t], call[t].args.volume.id))
        => /\ ViewOf(k2, call[t].args.volume.id) = {}
           /\ result[t].status = "raised" => Absent(k2, call[t].args.volume.id)

C2_Witness ==
    \E t \in Threads :
        /\ Ended(t, "create_volume_from_snapshot")
        /\ nfail[t] = 1
        /\ ViewCreated(t)
        /\ k2.nextid > pre[t].nextid + 4
        /\ result[t] = Raised("KaminarioCinderDriverException")
        /\ ViewOf(k2, call[t].args.volume.id) = {}
        /\ Absent(k2, call[t].args.volume.id)

-----------------------------------------------------------------------------
(* Claims on manage_existing's compensation, checked under SpecManageExisting *)

\* C11: manage_existing for an id the array has no group or volume of, whose
\* volume save failed after the group rename was saved (the except clause
\* found the group under cvg-<id>), ends by raising
\* ManageExistingInvalidReference with every group named as before the call,
\* so with no group named cvg-<id>.
C11_GroupNameRestored ==
    [][\A t \in Threads :
          (/\ At(t, "manage_existing", "exc_vg_save")
           /\ nfail[t] = 1 /\ nfail'[t] = 1
           /\ Absent(pre[t], call[t].args.volume.id)
           /\ stack'[t] = <<>>)
          => /\ k2'.volume_groups = pre[t].volume_groups
             /\ ~HasGroup(k2', call[t].args.volume.id)
             /\ result'[t] = Raised("ManageExistingInvalidReference")]_vars

\* the group rename is on the array, the volume save has failed, and the
\* except clause is about to save the old name
C11_Witness ==
    \E t \in Threads :
        /\ At(t, "manage_existing", "exc_vg_save")
        /\ nfail[t] = 1
        /\ Absent(pre[t], call[t].args.volume.id)
        /\ HasGroup(k2, call[t].args.volume.id)
        /\ ExtVol \in k2.volumes
        /\ Frame(t).vg_name = ExtVgName

-----------------------------------------------------------------------------
(* Claims on manage_existing_get_size, checked under SpecManageExistingGetSize *)

\* The volume the array has under the name the call refers to.
SizedVolume(t) == SearchName(k2.volumes, call[t].args.existing_ref.source_name)

\* C12: manage_existing_get_size returns the source volume's size in cinder's
\* unit rounded up to the next whole unit: the least whole number of units
\* that is not below the size (1.5 units give 2).
C12_RoundsUp ==
    \A t \in Threads :
        (/\ Ended(t, "manage_existing_get_size")
         /\ result[t].status = "returned")
        => \A v \in SizedVolume(t) : result[t].val = CeilDiv(v.size, Mi)

-----------------------------------------------------------------------------
(* Claims on the error the orchestrator sees, checked under SpecLifecycle *)

LifecycleOperations ==
    {"create_volume", "delete_volume", "create_snapshot", "delete_snapshot",
     "create_volume_from_snapshot", "create_cloned_volume", "extend_volume",
     "manage_existing", "after_volume_copy"}

\* The one failure of the call of thread t was the array failing one request.
OneArrayFailure(t) == nfail[t] = 1 /\ hfail[t] = 0

\* C13: a lifecycle operation in which the array failed one request, whichever
\* request it was, ends with the driver's own exception
\* (KaminarioCinderDriverException); no other kind of error reaches the
\* orchestrator.
C13_SingleErrorType ==
    \A t \in Threads :
        (/\ call[t].op \in LifecycleOperations
         /\ Ended(t, call[t].op)
         /\ OneArrayFailure(t))
        => result[t] = Raised("KaminarioCinderDriverException")
-----------------------------------------------------------------------------
(* Claims on concurrent create_volume calls, checked under
   SpecConcurrentCreateVolume *)

\* the group and the volume array k has under the names of cinder volume vid
NamedFor(k, vid) ==
    [volume_groups |-> SearchName(k.volume_groups, get_volume_group_name(vid)),
     volumes |-> SearchName(k.volumes, get_volume_name(vid))]

\* A call that has ended has ended as it does when it runs alone from the
\* state its own names had when it started: it returned exactly when no
\* request failed and neither cvg-<id> nor cv-<id> existed, then both exist;
\* with at most one failure it left both or neither.
EndsAsAlone(t) ==
    LET vid == call[t].args.volume.id IN
    Ended(t, "create_volume") =>
        /\ result[t].status = "returned" <=> (nfail[t] = 0 /\ Absent(pre[t], vid))
        /\ result[t].status = "returned" => (HasGroup(k2, vid) /\ HasVolume(k2, vid))
        /\ (nfail[t] <= 1 /\ Paired(pre[t], vid)) => Paired(k2, vid)

\* A step of thread t leaves what the array has under the names of every
\* other id as it was.
TouchesOwnOnly(t) ==
    stack'[t] # stack[t] =>
        \A vid \in VolIds \ {call'[t].args.volume.id} :
            NamedFor(k2', vid) = NamedFor(k2, vid)

\* C14: create_volume calls for different ids that run at once, their requests
\* interleaved in any order, do not collide: each ends as it would alone, no
\* step of one call (compensation included) deletes or changes the group or
\* volume of another id, and when all have returned the array holds the
\* cvg-/cv- pair of each.
C14_NoCollision ==
    /\ [](\A t \in ConcurrentCallers : EndsAsAlone(t))
    /\ []((\A t \in ConcurrentCallers : Ended(t, "create_volume") /\ result[t].status = "returned")
            => \A t \in ConcurrentCallers : \E g \in k2.volume_groups, v \in k2.volumes :
                   /\ g.name = get_volume_group_name(call[t].args.volume.id)
                   /\ v.name = get_volume_name(call[t].args.volume.id)
                   /\ v.volume_group = g.id)
    /\ [][\A t \in ConcurrentCallers : TouchesOwnOnly(t)]_vars

\* two calls interleaved: both groups were made before either volume, one call
\* returned and the other failed at its volume save and took its group away
C14_Witness ==
    \E t, u \in ConcurrentCallers :
        /\ t # u
        /\ Ended(t, "create_volume") /\ result[t].status = "returned"
        /\ Ended(u, "create_volume") /\ nfail[u] = 1
        /\ result[u] = Raised("KaminarioCinderDriverException")
        /\ Absent(pre[u], call[u].args.volume.id)
        /\ Absent(k2, call[u].args.volume.id)
        /\ k2.nextid = pre[t].nextid + 3
        /\ \E g \in k2.volume_groups, v \in k2.volumes :
              /\ g.name = get_volume_group_name(call[t].args.volume.id)
              /\ v.volume_group = g.id
              /\ v.id = g.id + 2
-----------------------------------------------------------------------------
(* Claims on get_initiator_host_name, checked under SpecHostName *)

\* C15: the name derived from a connector's host string has at most 32
\* characters, each of them one of [0-9a-zA-Z_-], and the name derived from a
\* derived name is that name.
C15_HostNameDerivation ==
    \A t \in Threads :
        Ended(t, "get_initiator_host_name") =>
            LET name == result[t].val IN
            /\ result[t].status = "returned"
            /\ Len(name) <= 32
            /\ \A i \in 1..Len(name) : name[i] \in ValidChars
            /\ ncalls[t] = 2 =>
                  /\ call[t].args.connector.host = prev[t].result.val
                  /\ name = prev[t].result.val

\* a host string longer than 32 with a character the pattern replaces among
\* its first 32 was cut and cleaned, and the name was derived again from it
C15_Witness ==
    \E t \in Threads :
        /\ Ended(t, "get_initiator_host_name")
        /\ ncalls[t] = 2
        /\ Len(prev[t].args.connector.host) > 32
        /\ Len(result[t].val) = 32
        /\ prev[t].args.connector.host[2] = "@"
        /\ result[t].val[2] = "_"
-----------------------------------------------------------------------------
(* Claims on errors that are not transient, checked under SpecTransport *)

\* An HTTP error other than status 400 with one of the busy codes in its body.
NonTransient(answer) ==
    /\ answer.kind = "HTTPError"
    /\ ~(/\ answer.status_code = 400
         /\ \E i \in 1..Len(K2_RETRY_ERRORS) : Contains(answer.text, K2_RETRY_ERRORS[i]))

\* C16: an attempt the array answers with an HTTP error that is not status 400
\* with a recognised busy code is the call's last: the call ends there with
\* K2HTTPError, the kind that is not retried, and sends nothing more; when that
\* was the answer to the first attempt the call has sent exactly one request.
C16_NonTransientNotRetried ==
    [][\A t \in Threads :
          (tpc[t] = "received" /\ NonTransient(resp[t]) /\ tpc'[t] # tpc[t])
          => /\ tpc'[t] = "done"
             /\ outcome'[t] = "K2HTTPError"
             /\ sent'[t] = attempt_number[t]
             /\ attempt_number[t] = 1 => sent'[t] = 1]_vars

\* a call has ended with K2HTTPError on the answer to its first attempt
C16_Witness ==
    \E t \in Threads :
        /\ tpc[t] = "done"
        /\ outcome[t] = "K2HTTPError"
        /\ attempt_number[t] = 1
        /\ sent[t] = 1
        /\ ~busyOnly[t]
-----------------------------------------------------------------------------
(* Claims on k2_initialize_connection's compensation, checked under
   SpecInitializeConnection *)

\* The step of thread t is the mapping's save failing.
MapSaveFails(t) ==
    /\ At(t, "k2_initialize_connection", "map_save")
    /\ stack'[t] # stack[t]
    /\ result'[t].status # "returned"

\* The step of thread t ends the except clause, none of whose requests failed.
CompensationEnds(t) ==
    /\ \/ At(t, "k2_initialize_connection", "exc_host_search")
       \/ At(t, "k2_initialize_connection", "exc_host_delete")
    /\ stack'[t] = <<>>
    /\ nfail'[t] = nfail[t]

\* C17: when the mapping's save fails in k2_initialize_connection, the except
\* clause goes on to delete the host exactly when the host search before had
\* found none; otherwise the call ends there, the host and all mappings as
\* they were.  The except clause, its requests not failing, ends with the host
\* gone.  Either way the call raises the driver's exception, and at no point
\* of the call is a host the array had before it, or a mapping of such a host,
\* missing.
C17_HostCompensation ==
    /\ [][\A t \in Threads :
            /\ MapSaveFails(t) =>
                  IF Frame(t).host_rs_total = 0
                  THEN /\ At(t, "k2_initialize_connection", "exc_host_search")'
                       /\ HostOf(k2, Frame(t).connector) # {}
                       /\ HostOf(pre[t], Frame(t).connector) = {}
                  ELSE /\ stack'[t] = <<>>
                       /\ result'[t] = Raised("KaminarioCinderDriverException")
                       /\ HostOf(k2', Frame(t).connector) # {}
                       /\ Objects(k2') = Objects(pre[t])
            /\ CompensationEnds(t) =>
                  /\ Frame(t).host_rs_total = 0
                  /\ HostOf(k2', Frame(t).connector) = {}
                  /\ Objects(k2') = Objects(pre[t])
                  /\ result'[t] = Raised("KaminarioCinderDriverException")]_vars
    /\ [](\A t \in Threads :
            call[t].op = "k2_initialize_connection" =>
                /\ pre[t].hosts \subseteq k2.hosts
                /\ pre[t].mappings \subseteq k2.mappings)

\* the mapping's save failed on a host this call had made, and the host is gone
C17_Witness ==
    \E t \in Threads :
        /\ Ended(t, "k2_initialize_connection")
        /\ nfail[t] = 1
        /\ result[t] = Raised("KaminarioCinderDriverException")
        /\ pre[t].hosts = {}
        /\ k2.hosts = {}
        /\ k2.nextid = pre[t].nextid + 1
-----------------------------------------------------------------------------
(* Claims on how create_volume_from_snapshot starts, checked under
   SpecCreateVolumeFromSnapshot *)

\* The step of thread t is the snapshot search answering that there is none.
SnapshotFoundAbsent(t) ==
    /\ At(t, "create_volume_from_snapshot", "snap_search")
    /\ stack'[t] # stack[t]
    /\ nfail'[t] = nfail[t]
    /\ SearchName(k2.snapshots, get_snap_name(Frame(t).snapshot.id)) = {}

\* The step of thread t is the view's save failing.
ViewSaveFails(t) ==
    /\ At(t, "create_volume_from_snapshot", "view_save")
    /\ stack'[t] # stack[t]
    /\ k2'.nextid = k2.nextid

\* C18: when create_volume_from_snapshot finds no snapshot cs-<snapshot id>, or
\* when the creation of the view fails, the call ends at that step with the
\* driver's exception; a call that has ended without having made its view has
\* raised and has left the array as it found it: no host, mapping, destination
\* group or volume was made.
C18_FailsFast ==
    /\ [][\A t \in Threads :
            (SnapshotFoundAbsent(t) \/ ViewSaveFails(t))
            => /\ stack'[t] = <<>>
               /\ result'[t] = Raised("KaminarioCinderDriverException")
               /\ k2' = k2]_vars
    /\ [](\A t \in Threads :
            (Ended(t, "create_volume_from_snapshot") /\ ~ViewCreated(t))
            => /\ result[t].status = "raised"
               /\ k2 = pre[t])

\* the call ended on the search finding no snapshot, though the volume the
\* snapshot would be of exists
C18_Witness ==
    \E t \in Threads :
        /\ Ended(t, "create_volume_from_snapshot")
        /\ nfail[t] = 0
        /\ SearchName(pre[t].snapshots, get_snap_name(call[t].args.snapshot.id)) = {}
        /\ HasVolume(pre[t], call[t].args.snapshot.volume.id)
        /\ Absent(pre[t], call[t].args.volume.id)
        /\ result[t] = Raised("KaminarioCinderDriverException")
        /\ k2 = pre[t]
-----------------------------------------------------------------------------
(* Claims on after_volume_copy, checked under SpecAfterVolumeCopy *)

\* The call of thread t is after_volume_copy(old, new), the array had the
\* group and the volume of both ids when it started, and no request of the
\* call has been made to fail.
CopyOfPairs(t) ==
    /\ call[t].op = "after_volume_copy"
    /\ nfail[t] = 0
    /\ HasGroup(pre[t], call[t].args.volume.id)
    /\ HasVolume(pre[t], call[t].args.volume.id)
    /\ HasGroup(pre[t], call[t].args.new_volume.id)
    /\ HasVolume(pre[t], call[t].args.new_volume.id)

\* The group and the volume that had the names of vid when the call started
\* are no longer on the array.
OldPairDeleted(t, vid) ==
    /\ \A g \in NamedFor(pre[t], vid).volume_groups : ById(k2.volume_groups, g.id) = {}
    /\ \A v \in NamedFor(pre[t], vid).volumes : ById(k2.volumes, v.id) = {}

\* The group and the volume that had the names of id from when the call
\* started now have those of id to.
Renamed(t, from, to) ==
    /\ \A g \in NamedFor(pre[t], from).volume_groups :
          \E h \in k2.volume_groups : h.id = g.id /\ h.name = get_volume_group_name(to)
    /\ \A v \in NamedFor(pre[t], from).volumes :
          \E w \in k2.volumes : w.id = v.id /\ w.name = get_volume_name(to)

\* C19: after_volume_copy(old, new), started with the pairs of both ids on the
\* array and with no request failing, has deleted the volume and the group of
\* old before it looks up and renames those of new; when it has returned, the
\* group and the volume that were cvg-<new> and cv-<new> are cvg-<old> and
\* cv-<old>, nothing is named cvg-<new> or cv-<new>, and one group and one
\* volume have the old names.  It returns unless the array rejects a request
\* (the old volume is mapped to a host).
C19_AfterVolumeCopy ==
    \A t \in Threads :
        CopyOfPairs(t) =>
            LET old == call[t].args.volume.id
                new == call[t].args.new_volume.id
            IN /\ (\E pc \in {"vg_search", "vg_save", "vol_search", "vol_save"} :
                      At(t, "after_volume_copy", pc))
                  => OldPairDeleted(t, old)
               /\ (Ended(t, "after_volume_copy") /\ ~IsMapped(pre[t], old))
                  => result[t].status = "returned"
               /\ (Ended(t, "after_volume_copy") /\ result[t].status = "returned")
                  => /\ OldPairDeleted(t, old)
                     /\ Renamed(t, new, old)
                     /\ Absent(k2, new)
                     /\ Cardinality(NamedFor(k2, old).volume_groups) = 1
                     /\ Cardinality(NamedFor(k2, old).volumes) = 1

C19_Witness ==
    \E t \in Threads :
        /\ CopyOfPairs(t)
        /\ Ended(t, "after_volume_copy")
        /\ result[t].status = "returned"
        /\ Renamed(t, call[t].args.new_volume.id, call[t].args.volume.id)
        /\ Cardinality(k2.volumes) = Cardinality(pre[t].volumes) - 1
-----------------------------------------------------------------------------
(* Claims on _check_for_status, checked under SpecCheckForStatusFair *)

\* The object on the array is in the state the caller waits for.
InAwaitedState ==
    /\ call[Caller].op = "_check_for_status"
    /\ \A e \in k2.volumes : e.state = call[Caller].args.status

WaitReturned == Ended(Caller, "_check_for_status") /\ result[Caller].status = "returned"

\* _check_for_status returns only from the test of its loop, and only when the
\* state last reported for the object is the awaited one.
ReturnsOnAwaitedState ==
    \A t \in Threads :
        (call[t].op = "_check_for_status" /\ stack[t] # <<>>
            /\ result'[t].status = "returned")
        => /\ At(t, "_check_for_status", "test")
           /\ Frame(t).obj.state = Frame(t).status

\* C20: _check_for_status returns only when the state last reported for the
\* object is the awaited one; if from some point on the object is in the
\* awaited state for good, the wait, its thread scheduled fairly, ends: it
\* returns if no refresh request fails, and a refresh request that fails ends
\* it with that error; if the object is never in the awaited state the wait
\* never returns.
C20_PollingWait ==
    /\ [][ReturnsOnAwaitedState]_vars
    /\ (<>[]InAwaitedState) => <>Ended(Caller, "_check_for_status")
    /\ (<>[]InAwaitedState /\ [](nfail[Caller] = 0)) => <>WaitReturned
    /\ ([]~InAwaitedState) => []~WaitReturned

\* C20 as stated: whenever the object reaches the awaited state and stays in
\* it the wait returns in the end, whatever happens to its refresh requests.
C20_Original ==
    /\ [][ReturnsOnAwaitedState]_vars
    /\ (<>[]InAwaitedState) => <>WaitReturned
    /\ ([]~InAwaitedState) => []~WaitReturned

\* the wait began on an object in another state and has returned
C20_Witness ==
    /\ WaitReturned
    /\ \A e \in pre[Caller].volumes : e.state # call[Caller].args.status
    /\ InAwaitedState
-----------------------------------------------------------------------------
(* Claims on concurrent terminate_connection and k2_initialize_connection
   calls of one initiator host, checked under SpecConcurrentConnections *)

\* every mapping on the array refers to a host of the array
MappingsReferenceHosts(k) ==
    \A m \in k.mappings : \E h \in k.hosts : h.id = m.host

\* thread u has resolved host h in k2_initialize_connection (found or created
\* it) and its next request creates the mapping to it
AboutToMap(u, h) ==
    /\ At(u, "k2_initialize_connection", "map_save")
    /\ Frame(u).host.id = h.id

\* this step is terminate_connection's host.delete() of thread t removing h
DeletesHost(t, h) ==
    /\ At(t, "terminate_connection", "host_delete")
    /\ h \in k2.hosts
    /\ h \notin k2'.hosts

\* the part of C21 on the array's objects alone: no mapping is left without
\* its host
C21_NoDanglingMapping == MappingsReferenceHosts(k2)

\* C21: under every interleaving of terminate_connection and
\* k2_initialize_connection calls of one initiator host, every mapping refers
\* to a host that exists, and terminate_connection deletes no host to which
\* another call has created a mapping or, having resolved the host, is about
\* to create one.
C21_HostNotDeletedUnderMapper ==
    [][/\ MappingsReferenceHosts(k2')
       /\ \A t \in ConcurrentCallers : \A h \in k2.hosts :
            DeletesHost(t, h) =>
                /\ \A m \in k2.mappings : m.host # h.id
                /\ \A u \in ConcurrentCallers \ {t} : ~AboutToMap(u, h)]_vars
-----------------------------------------------------------------------------
(* Claim on the release of the transport lock, checked under SpecTransportFair *)

\* thread t is inside an attempt: between its acquire and the end of finally
InAttempt(t) == tpc[t] \in {"locked", "inflight", "received"}

\* this step ends an attempt of thread t
AttemptEnds(t) == tpc[t] = "received" /\ tpc'[t] \in {"done", "backoff"}

\* C22: every attempt ends with the lock released, whether it got a response,
\* a transient-busy error or another HTTP error; whenever no attempt is in
\* progress the lock is free; a thread waiting for the lock waits only for an
\* attempt still in progress, and an attempt that has its answer gives the
\* lock up in the end.
C22_LockReleasedOnEveryExit ==
    /\ [][\A t \in Threads : AttemptEnds(t) => krestlock' = NoThread]_vars
    /\ []((\A t \in Threads : ~InAttempt(t)) => krestlock = NoThread)
    /\ [](\A u \in Threads :
            (tpc[u] = "acquire" /\ krestlock # NoThread) => InAttempt(krestlock))
    /\ \A t \in Threads : (tpc[t] = "received") ~> (krestlock # t)

\* one call has ended with a non-retryable HTTP error, another waits between
\* two attempts after a transient-busy error, and the lock is free
C22_Witness ==
    \E t, u \in Threads :
        /\ tpc[t] = "done" /\ outcome[t] = "K2HTTPError"
        /\ tpc[u] = "backoff"
        /\ krestlock = NoThread
-----------------------------------------------------------------------------
(* Claim on what create_volume's compensation removes, checked under
   SpecCreateVolume *)

\* the groups named cvg-<id> that were on the array when thread t's call began
GroupsBefore(t) ==
    SearchName(pre[t].volume_groups, get_volume_group_name(call[t].args.volume.id))

\* C23: when create_volume(id) fails and a group named cvg-<id> was on the
\* array before the call, that group, and the volume in it, are still on the
\* array after the call.
C23_CompensationSparesOthers ==
    \A t \in Threads :
        (Ended(t, "create_volume") /\ result[t].status = "raised") =>
            \A g \in GroupsBefore(t) :
                /\ g \in k2.volume_groups
                /\ \A v \in pre[t].volumes : v.volume_group = g.id => v \in k2.volumes
-----------------------------------------------------------------------------
(* Claim on the pairing of volumes and groups, checked under SpecPairing *)

\* no lifecycle operation is in progress
NoOperationInProgress == \A t \in Threads : stack[t] = <<>>

\* C24: whenever no lifecycle operation is in progress, after any sequence of
\* create_volume, delete_volume, manage_existing and after_volume_copy calls,
\* each failing at one array request at most, every volume cv-<id> on the
\* array has its group cvg-<id> on the array.
C24_VolumeHasGroup ==
    NoOperationInProgress =>
        \A vid \in VolIds : HasVolume(k2, vid) => HasGroup(k2, vid)
-----------------------------------------------------------------------------
(* Claim on concurrent clones of one source volume, checked under
   SpecConcurrentClones *)

\* thread t's create_cloned_volume has attached the source and its block copy
\* is not over: it is between _connect_device of the source and the
\* disconnect after copy_volume
CopyInProgress(t) ==
    /\ stack[t] # <<>>
    /\ stack[t][1].fn = "create_cloned_volume"
    /\ stack[t][1].src_attach_info # NoAttachInfo
    /\ stack[t][1].pc \in {"create_volume", "init_dest", "connect_dest", "copy",
                           "disconnect"}

\* thread t's create_cloned_volume is in its except clause
InFailurePath(t) ==
    /\ stack[t] # <<>>
    /\ stack[t][1].fn = "create_cloned_volume"
    /\ stack[t][1].pc \in {"exc_disconnect", "exc_term_src", "exc_term_dest",
                           "exc_delete_volume", "exc_raise"}

\* the mappings of the source volume of thread t's clone
SourceMappings(k, t) ==
    {m \in k.mappings :
        \E v \in SearchName(k.volumes, get_volume_name(call[t].args.src_vref.id)) :
            m.volume = v.id}

\* C25: under every interleaving of two create_cloned_volume calls with the
\* same source volume and the same host, no step of the failure path of one
\* call deletes the mapping of the source or the host while the other call's
\* block copy is in progress.
C25_ClonesDoNotDisturb ==
    [][\A t, u \in ConcurrentCallers :
        (t # u /\ InFailurePath(t) /\ CopyInProgress(u) /\ stack'[u] = stack[u]) =>
            /\ SourceMappings(k2, u) \subseteq k2'.mappings
            /\ k2.hosts \subseteq k2'.hosts]_vars
=============================================================================
